---- MODULE Spec2Model ----
(***************************************************************************)
(* tm2bd: synchronisation of a Task-Master task list into the Beads issue  *)
(* tracker.  The module models                                             *)
(*   - topologicalSort (utils/topological-sort.ts) as a recursive operator *)
(*     that threads the visiting / visited / tiers state of the DFS,       *)
(*   - the IdMapper store (mapping/id-mapper.ts),                          *)
(*   - the sync command action (index.ts) as a state machine whose steps   *)
(*     are the external bd calls issued by the creators, the wirer and the *)
(*     status syncer, each call being issued and then completed.           *)
(***************************************************************************)
EXTENDS Integers, Sequences, FiniteSets, TLC

VARIABLES
    tasks,       \* project.tasks: the parsed task list (the same file in every run)
    opts,        \* command options of the current run: dryRun, force, resume
    disk,        \* content of the mapping file, or Absent
    diskBefore,  \* content of the mapping file when the current run started
    mapper,      \* IdMapper.tasks of the current run
    loaded,      \* IdMapper.tasks as the run obtained it (loaded, or empty)
    pc,          \* position of the sync command action
    ti,          \* index of the task the current stage is working on
    si,          \* index of the subtask / dependency within that task
    di,          \* index of the dependency within that subtask
    count,       \* the stage's counter (current / count)
    log,         \* external calls (and the save) of the current run, in issue order
    inFlight,    \* indices in log of the calls issued and not yet settled
    nextId,      \* number of entities the tracker created in the current run
    exitCode,    \* <<status>> once the process of the current run has exited, or Running
    error,       \* the error the action's catch block received, or NoErr
    epoch,       \* number of runs that have written the mapping file
    ordered,     \* orderedTasks: the task list in resolver order
    sortResult,  \* what topologicalSort returned or threw
    progress,    \* progress callback invocations of the current run
    validation   \* what validateCircularDependencies returned

vars == <<tasks, opts, disk, diskBefore, mapper, loaded, pc, ti, si, di, count,
          log, inFlight, nextId, exitCode, error, epoch, ordered, sortResult,
          progress, validation>>

----------------------------------------------------------------------------
(* Bounds of the model *)

\* largest number of entries in a task list given to topologicalSort alone
MaxNodes == 3
\* largest number of entries in one dependency list given to topologicalSort alone
MaxDeps == 2
\* largest number of tasks in the task list of a sync run
MaxTasks == 2
\* number of runs that may write the mapping file
MaxSavedRuns == 2
\* number of register operations applied to a store on its own
MaxStoreOps == 4

----------------------------------------------------------------------------
(* Values *)

Undefined == <<>>
NoErr == [msg |-> "", id |-> 0, of |-> 0]
CycleMsg == "Circular dependency detected involving task"
MissingMsg == "referenced but not found"

Err(m, n) == [msg |-> m, id |-> n, of |-> 0]
ErrOf(m, n, parent) == [msg |-> m, id |-> n, of |-> parent]

Range(s) == {s[k] : k \in DOMAIN s}

----------------------------------------------------------------------------
(* utils/topological-sort.ts *)

\* taskMap: built with Map.set in list order, so the last task with an id wins
taskMapOf(ts) ==
    [n \in {ts[k].id : k \in DOMAIN ts} |->
        ts[CHOOSE k \in DOMAIN ts :
              /\ ts[k].id = n
              /\ \A m \in DOMAIN ts : ts[m].id = n => m <= k]]

\* state of the traversal: the two sets, the tiers map, the value returned by
\* the last visit and the error thrown (NoErr while none is)
NewVisitState ==
    [visiting |-> {}, visited |-> {}, tiers |-> <<>>, ret |-> 0 - 1, err |-> NoErr]

RECURSIVE visit(_, _, _)
RECURSIVE visitDeps(_, _, _, _, _)

\* a dependency loop body that treats a self reference as harmless
visitDepSkipSelf(taskMap, st, id, depId, maxDepTier) ==
    IF depId = id
    THEN [st EXCEPT !.ret = maxDepTier]
    ELSE LET s == visit(taskMap, st, depId)
         IN IF s.err # NoErr THEN s
            ELSE [s EXCEPT !.ret = IF s.ret > maxDepTier THEN s.ret ELSE maxDepTier]

\* a loop body that keeps the tier of the dependency visited last
visitDepKeepLast(taskMap, st, id, depId, maxDepTier) ==
    IF depId = id
    THEN [st EXCEPT !.err = Err(CycleMsg, id)]
    ELSE visit(taskMap, st, depId)

\* body of the loop over task.dependencies; ret carries maxDepTier
visitDep(taskMap, st, id, depId, maxDepTier) ==
    IF depId = id
    THEN [st EXCEPT !.err = Err(CycleMsg, id)]
    ELSE LET s == visit(taskMap, st, depId)
         IN IF s.err # NoErr THEN s
            ELSE [s EXCEPT !.ret = IF s.ret > maxDepTier THEN s.ret ELSE maxDepTier]

visitDeps(taskMap, st, id, k, maxDepTier) ==
    LET deps == taskMap[id].dependencies
    IN IF k > Len(deps)
       THEN [st EXCEPT !.ret = maxDepTier]
       ELSE LET s == visitDep(taskMap, st, id, deps[k], maxDepTier)
            IN IF s.err # NoErr THEN s
               ELSE visitDeps(taskMap, s, id, k + 1, s.ret)

\* a tier that forgets to add one to the maximum dependency tier
tierOfMaxSame(maxDepTier) == IF maxDepTier < 0 THEN 0 ELSE maxDepTier

tierOfMax(maxDepTier) == maxDepTier + 1

\* a traversal that takes an id without a node for a node without dependencies
visitMissingAsLeaf(taskMap, st, id) ==
    IF id \in st.visited
    THEN [st EXCEPT !.ret = st.tiers[id]]
    ELSE IF id \in st.visiting
    THEN [st EXCEPT !.err = Err(CycleMsg, id)]
    ELSE IF id \notin DOMAIN taskMap
    THEN [st EXCEPT !.visited = @ \cup {id},
                    !.tiers = (id :> 0) @@ @,
                    !.ret = 0]
    ELSE LET s1 == [st EXCEPT !.visiting = @ \cup {id}]
             s2 == visitDeps(taskMap, s1, id, 1, 0 - 1)
             tier == tierOfMax(s2.ret)
         IN IF s2.err # NoErr THEN s2
            ELSE [s2 EXCEPT !.visiting = @ \ {id},
                            !.visited = @ \cup {id},
                            !.tiers = (id :> tier) @@ @,
                            !.ret = tier]

visit(taskMap, st, id) ==
    IF id \in st.visited
    THEN [st EXCEPT !.ret = st.tiers[id]]
    ELSE IF id \in st.visiting
    THEN [st EXCEPT !.err = Err(CycleMsg, id)]
    ELSE IF id \notin DOMAIN taskMap
    THEN [st EXCEPT !.err = Err(MissingMsg, id)]
    ELSE LET s1 == [st EXCEPT !.visiting = @ \cup {id}]
             s2 == visitDeps(taskMap, s1, id, 1, 0 - 1)
             tier == tierOfMax(s2.ret)
         IN IF s2.err # NoErr THEN s2
            ELSE [s2 EXCEPT !.visiting = @ \ {id},
                            !.visited = @ \cup {id},
                            !.tiers = (id :> tier) @@ @,
                            !.ret = tier]

\* the loop over tasks that starts a traversal at every unvisited task
RECURSIVE visitAll(_, _, _, _)
visitAll(ts, taskMap, st, k) ==
    IF k > Len(ts) THEN st
    ELSE IF ts[k].id \in st.visited THEN visitAll(ts, taskMap, st, k + 1)
    ELSE LET s == visit(taskMap, st, ts[k].id)
         IN IF s.err # NoErr THEN s ELSE visitAll(ts, taskMap, s, k + 1)

\* a comparator without the id tie-break
compareSortedTierOnly(a, b) == a.tier - b.tier

\* the comparator given to result.sort
compareSorted(a, b) ==
    IF a.tier # b.tier THEN a.tier - b.tier ELSE a.task.id - b.task.id

\* Array.prototype.sort is stable: an element goes after the elements that
\* do not compare greater than it
RECURSIVE insertSorted(_, _)
insertSorted(s, x) ==
    IF s = <<>> THEN <<x>>
    ELSE IF compareSorted(x, Head(s)) < 0 THEN <<x>> \o s
    ELSE <<Head(s)>> \o insertSorted(Tail(s), x)

RECURSIVE sortResultList(_)
sortResultList(s) ==
    IF s = <<>> THEN <<>>
    ELSE insertSorted(sortResultList(SubSeq(s, 1, Len(s) - 1)), s[Len(s)])

\* the tiers computed and the result left in the order of the input
topologicalSortUnsorted(ts) ==
    LET taskMap == taskMapOf(ts)
        st == visitAll(ts, taskMap, NewVisitState, 1)
    IN IF st.err # NoErr
       THEN [err |-> st.err, out |-> <<>>]
       ELSE [err |-> NoErr,
             out |-> [k \in DOMAIN ts |->
                        [task |-> ts[k], tier |-> st.tiers[ts[k].id]]]]

topologicalSort(ts) ==
    LET taskMap == taskMapOf(ts)
        st == visitAll(ts, taskMap, NewVisitState, 1)
    IN IF st.err # NoErr
       THEN [err |-> st.err, out |-> <<>>]
       ELSE [err |-> NoErr,
             out |-> sortResultList([k \in DOMAIN ts |->
                        [task |-> ts[k], tier |-> st.tiers[ts[k].id]]])]

----------------------------------------------------------------------------
(* mapping/id-mapper.ts *)

\* this.tasks.find(t => t.tmId === tmId): index of the first match, 0 if none
findTask(m, tmId) ==
    IF \E k \in DOMAIN m : m[k].tmId = tmId
    THEN CHOOSE k \in DOMAIN m :
            /\ m[k].tmId = tmId
            /\ \A j \in DOMAIN m : m[j].tmId = tmId => k <= j
    ELSE 0

\* task.subtasks.find(s => s.tmId === subtaskTmId)
findSubtask(subs, subtaskTmId) ==
    IF \E k \in DOMAIN subs : subs[k].tmId = subtaskTmId
    THEN CHOOSE k \in DOMAIN subs :
            /\ subs[k].tmId = subtaskTmId
            /\ \A j \in DOMAIN subs : subs[j].tmId = subtaskTmId => k <= j
    ELSE 0

NotInMappingMsg == "not found in mapping"

\* the result of a store operation: the store after it and the error thrown
Stored(m, e) == [m |-> m, err |-> e]

\* an addEpic that registers only in an empty store
addEpicOnce(m, tmId, beadsId) ==
    IF m # <<>> THEN m
    ELSE <<[tmId |-> tmId, beadsId |-> beadsId, type |-> "epic",
            subtasks |-> <<>>]>>

\* the object pushed by addEpic has no testIssueId key
\* a registration that overwrites the entry of a source id that has one
addEpicReplacing(m, tmId, beadsId) ==
    LET k == findTask(m, tmId)
        entry == [tmId |-> tmId, beadsId |-> beadsId, type |-> "epic",
                  subtasks |-> <<>>]
    IN IF k = 0 THEN Append(m, entry) ELSE [m EXCEPT ![k] = entry]

addEpic(m, tmId, beadsId) ==
    Append(m, [tmId |-> tmId, beadsId |-> beadsId, type |-> "epic",
               subtasks |-> <<>>])

\* an addSubtask that registers a parent it does not find
addSubtaskCreatesParent(m, taskTmId, subtaskTmId, beadsId) ==
    LET k == findTask(m, taskTmId)
    IN IF k = 0
       THEN Stored(Append(m, [tmId |-> taskTmId, beadsId |-> beadsId,
                              type |-> "epic",
                              subtasks |-> <<[tmId |-> subtaskTmId,
                                              beadsId |-> beadsId,
                                              type |-> "child"]>>]),
                   NoErr)
       ELSE Stored([m EXCEPT ![k].subtasks =
                       Append(@, [tmId |-> subtaskTmId, beadsId |-> beadsId,
                                  type |-> "child"])],
                   NoErr)

\* every entry holding the same subtasks array: a child shows under all parents
addSubtaskShared(m, taskTmId, subtaskTmId, beadsId) ==
    LET k == findTask(m, taskTmId)
    IN IF k = 0
       THEN Stored(m, Err(NotInMappingMsg, taskTmId))
       ELSE Stored([i \in DOMAIN m |->
                       [m[i] EXCEPT !.subtasks =
                           Append(@, [tmId |-> subtaskTmId, beadsId |-> beadsId,
                                      type |-> "child"])]],
                   NoErr)

addSubtask(m, taskTmId, subtaskTmId, beadsId) ==
    LET k == findTask(m, taskTmId)
    IN IF k = 0
       THEN Stored(m, Err(NotInMappingMsg, taskTmId))
       ELSE Stored([m EXCEPT ![k].subtasks =
                       Append(@, [tmId |-> subtaskTmId, beadsId |-> beadsId,
                                  type |-> "child"])],
                   NoErr)

getEpicId(m, tmId) ==
    LET k == findTask(m, tmId)
    IN IF k = 0 THEN Undefined ELSE m[k].beadsId

\* a lookup that falls back to a child of that id under any parent
getSubtaskIdAnyParent(m, taskTmId, subtaskTmId) ==
    LET k == findTask(m, taskTmId)
        Has(i) == findSubtask(m[i].subtasks, subtaskTmId) # 0
        Under(i) == m[i].subtasks[findSubtask(m[i].subtasks, subtaskTmId)].beadsId
    IN IF k # 0 /\ Has(k) THEN Under(k)
       ELSE IF \E i \in DOMAIN m : Has(i)
       THEN Under(CHOOSE i \in DOMAIN m : Has(i) /\ \A j \in DOMAIN m : Has(j) => i <= j)
       ELSE Undefined

getSubtaskId(m, taskTmId, subtaskTmId) ==
    LET k == findTask(m, taskTmId)
    IN IF k = 0 THEN Undefined
       ELSE LET j == findSubtask(m[k].subtasks, subtaskTmId)
            IN IF j = 0 THEN Undefined ELSE m[k].subtasks[j].beadsId

setTestIssueId(m, taskTmId, beadsId) ==
    LET k == findTask(m, taskTmId)
    IN IF k = 0
       THEN Stored(m, Err(NotInMappingMsg, taskTmId))
       ELSE Stored([m EXCEPT ![k] =
                       [f \in DOMAIN m[k] \cup {"testIssueId"} |->
                           IF f = "testIssueId" THEN beadsId ELSE m[k][f]]],
                   NoErr)

getTestIssueId(m, taskTmId) ==
    LET k == findTask(m, taskTmId)
    IN IF k = 0 THEN Undefined
       ELSE IF "testIssueId" \in DOMAIN m[k] THEN m[k].testIssueId
       ELSE Undefined

\* a serialisation that leaves the subtasks of an entry out
stringifyEntryFlat(e) ==
    [f \in DOMAIN e |-> IF f = "subtasks" THEN <<>> ELSE e[f]]

\* JSON.stringify keeps an object's keys whose value is not undefined
stringifyEntry(e) ==
    [f \in {g \in DOMAIN e : g # "testIssueId" \/ e[g] # Undefined} |-> e[f]]

\* save: the MappingFile document written to filePath
savedDocument(m) ==
    [present |-> TRUE, version |-> "1.0",
     tasks |-> [k \in DOMAIN m |-> stringifyEntry(m[k])]]

\* load: mapper.tasks = data.tasks
loadedTasks(document) == document.tasks

\* getStats: testIssueCount counts the entries whose testIssueId is not undefined
getStats(m) ==
    LET RECURSIVE children(_)
        children(k) == IF k = 0 THEN 0 ELSE children(k - 1) + Len(m[k].subtasks)
    IN [epicCount |-> Len(m),
        childCount |-> children(Len(m)),
        testIssueCount |->
            Cardinality({k \in DOMAIN m : /\ "testIssueId" \in DOMAIN m[k]
                                          /\ m[k].testIssueId # Undefined})]

NoSuchFileMsg == "ENOENT: no such file or directory"
JsonSyntaxMsg == "SyntaxError: Unexpected token"
TypeErrorMsg == "TypeError: Cannot read properties of undefined"

\* a file whose content is no JSON text, and a file that holds the JSON
\* object without keys
Garbage == [present |-> TRUE, text |-> "not json"]
EmptyObject == [present |-> TRUE, text |-> "{}"]

\* JSON.parse accepts what save wrote and the object without keys
JsonParses(file) == "text" \notin DOMAIN file \/ file.text = "{}"

\* load: readFile, JSON.parse, mapper.tasks = data.tasks.  The store is the
\* IdMapper instance: it has no tasks when data has none
load(file) ==
    IF ~file.present THEN [err |-> Err(NoSuchFileMsg, 0), store |-> <<>>]
    ELSE IF ~JsonParses(file) THEN [err |-> Err(JsonSyntaxMsg, 0), store |-> <<>>]
    ELSE [err |-> NoErr,
          store |-> [f \in DOMAIN file \cap {"tasks"} |-> file[f]]]

----------------------------------------------------------------------------
(* beads/cli.ts: the calls given to the bd command *)

\* an entry of log.  by names the function that issued the call, id1 is the
\* parentId / blockedId / issueId argument, id2 the blockingId argument, tm
\* and sub the source ids the call was issued for, ret the id a create returned
Call(op, by, id1, id2, tm, sub, status) ==
    [op |-> op, by |-> by, id1 |-> id1, id2 |-> id2, tm |-> tm, sub |-> sub,
     status |-> status, outcome |-> "pending", ret |-> Undefined]

NoCall == Call("none", "", Undefined, Undefined, 0, 0, "")

SaveEntry ==
    [Call("save", "mapper.save", Undefined, Undefined, 0, 0, "")
        EXCEPT !.outcome = "ok"]

CreateOps == {"createEpic", "createChild"}
ExternalOps == CreateOps \cup {"addDependency", "updateStatus", "close"}

\* a truthy optional string: present and not empty
Truthy(optString) == optString # <<>> /\ optString[1] # ""

----------------------------------------------------------------------------
(* What a stage function does at a position of its loops: issue a call (and *)
(* where the loops stand after it succeeded), throw, move on without a      *)
(* call, or return.                                                         *)

CallStep(c, t, s, d) ==
    [kind |-> "call", call |-> c, err |-> NoErr, ti |-> t, si |-> s, di |-> d]
ThrowStep(e) ==
    [kind |-> "throw", call |-> NoCall, err |-> e, ti |-> 1, si |-> 1, di |-> 1]
MoveStep(t, s, d) ==
    [kind |-> "move", call |-> NoCall, err |-> NoErr, ti |-> t, si |-> s, di |-> d]
EndStep ==
    [kind |-> "end", call |-> NoCall, err |-> NoErr, ti |-> 1, si |-> 1, di |-> 1]

\* createEpics handed the tasks in the order of the file
createEpicsStepUnordered(ts, m, t) ==
    IF t > Len(tasks) THEN EndStep
    ELSE CallStep(Call("createEpic", "createEpic", Undefined, Undefined,
                       tasks[t].id, 0, ""),
                  t + 1, 1, 1)

\* sync/epic-creator.ts: createEpics, createEpic
createEpicsStep(ts, m, t) ==
    IF t > Len(ts) THEN EndStep
    ELSE CallStep(Call("createEpic", "createEpic", Undefined, Undefined,
                       ts[t].id, 0, ""),
                  t + 1, 1, 1)

\* [...task.subtasks].sort((a, b) => a.id - b.id), a stable sort
RECURSIVE insertById(_, _)
insertById(s, x) ==
    IF s = <<>> THEN <<x>>
    ELSE IF x.id - Head(s).id < 0 THEN <<x>> \o s
    ELSE <<Head(s)>> \o insertById(Tail(s), x)

\* the subtasks taken in the order of the input
sortSubtasksAsGiven(subs) == subs

RECURSIVE sortSubtasks(_)
sortSubtasks(subs) ==
    IF subs = <<>> THEN <<>>
    ELSE insertById(sortSubtasks(SubSeq(subs, 1, Len(subs) - 1)), subs[Len(subs)])

NoEpicMappingMsg == "No epic mapping found for task"

\* createAllChildren without the check of the parent's mapping
createAllChildrenStepUnchecked(ts, m, t, s) ==
    IF t > Len(ts) THEN EndStep
    ELSE LET task == ts[t]
             epicId == getEpicId(m, task.id)
             sorted == sortSubtasks(task.subtasks)
         IN IF s > Len(sorted) THEN MoveStep(t + 1, 1, 1)
            ELSE CallStep(Call("createChild", "createAllChildren", epicId,
                               Undefined, task.id, sorted[s].id, ""),
                          t, s + 1, 1)

\* sync/child-creator.ts: createAllChildren
createAllChildrenStep(ts, m, t, s) ==
    IF t > Len(ts) THEN EndStep
    ELSE LET task == ts[t]
             epicId == getEpicId(m, task.id)
             sorted == sortSubtasks(task.subtasks)
         IN IF epicId = Undefined
            THEN ThrowStep(Err(NoEpicMappingMsg, task.id))
            ELSE IF s > Len(sorted) THEN MoveStep(t + 1, 1, 1)
            ELSE CallStep(Call("createChild", "createAllChildren", epicId,
                               Undefined, task.id, sorted[s].id, ""),
                          t, s + 1, 1)

EpicIdNotFoundMsg == "Epic ID not found for task"

\* a verification item for every task whose testStrategy is defined
createAllTestChildrenStepDefinedOnly(ts, m, t) ==
    IF t > Len(ts) THEN EndStep
    ELSE LET task == ts[t]
             epicId == getEpicId(m, task.id)
         IN IF task.testStrategy = <<>> THEN MoveStep(t + 1, 1, 1)
            ELSE IF epicId = Undefined
            THEN ThrowStep(Err(EpicIdNotFoundMsg, task.id))
            ELSE CallStep(Call("createChild", "createTestChild", epicId,
                               Undefined, task.id, 0, ""),
                          t + 1, 1, 1)

\* sync/test-creator.ts: createAllTestChildren, createTestChild
createAllTestChildrenStep(ts, m, t) ==
    IF t > Len(ts) THEN EndStep
    ELSE LET task == ts[t]
             epicId == getEpicId(m, task.id)
         IN IF ~Truthy(task.testStrategy) THEN MoveStep(t + 1, 1, 1)
            ELSE IF epicId = Undefined
            THEN ThrowStep(Err(EpicIdNotFoundMsg, task.id))
            ELSE CallStep(Call("createChild", "createTestChild", epicId,
                               Undefined, task.id, 0, ""),
                          t + 1, 1, 1)

BlockedTaskMsg == "Failed to wire epic dependency: no Beads ID found for blocked task"
BlockingTaskMsg == "Failed to wire epic dependency: no Beads ID found for blocking task"

\* a top-level pass that hands the two ids over in the other order
wireEpicDependenciesStepSwapped(ts, m, t, s) ==
    IF t > Len(ts) THEN EndStep
    ELSE LET task == ts[t]
             deps == task.dependencies
             blockedEpicId == getEpicId(m, task.id)
         IN IF Len(deps) = 0 THEN MoveStep(t + 1, 1, 1)
            ELSE IF blockedEpicId = Undefined
            THEN ThrowStep(Err(BlockedTaskMsg, task.id))
            ELSE IF s > Len(deps) THEN MoveStep(t + 1, 1, 1)
            ELSE IF getEpicId(m, deps[s]) = Undefined
            THEN ThrowStep(ErrOf(BlockingTaskMsg, deps[s], task.id))
            ELSE CallStep(Call("addDependency", "wireEpicDependencies",
                               getEpicId(m, deps[s]), blockedEpicId,
                               task.id, 0, ""),
                          t, s + 1, 1)

\* sync/dependency-wirer.ts: wireEpicDependencies
wireEpicDependenciesStep(ts, m, t, s) ==
    IF t > Len(ts) THEN EndStep
    ELSE LET task == ts[t]
             deps == task.dependencies
             blockedEpicId == getEpicId(m, task.id)
         IN IF Len(deps) = 0 THEN MoveStep(t + 1, 1, 1)
            ELSE IF blockedEpicId = Undefined
            THEN ThrowStep(Err(BlockedTaskMsg, task.id))
            ELSE IF s > Len(deps) THEN MoveStep(t + 1, 1, 1)
            ELSE IF getEpicId(m, deps[s]) = Undefined
            THEN ThrowStep(ErrOf(BlockingTaskMsg, deps[s], task.id))
            ELSE CallStep(Call("addDependency", "wireEpicDependencies",
                               blockedEpicId, getEpicId(m, deps[s]),
                               task.id, 0, ""),
                          t, s + 1, 1)

BlockedSubtaskMsg == "Failed to wire subtask dependency: no Beads ID found for blocked subtask"
BlockingSubtaskMsg == "Failed to wire subtask dependency: no Beads ID found for blocking subtask"

\* a child pass that passes over a dependency it cannot resolve
wireSubtaskDependenciesStepSkipping(ts, m, t, s, d) ==
    IF t > Len(ts) THEN EndStep
    ELSE LET task == ts[t]
             subtasks == task.subtasks
         IN IF s > Len(subtasks) THEN MoveStep(t + 1, 1, 1)
            ELSE LET subtask == subtasks[s]
                     deps == subtask.dependencies
                     blockedSubtaskId == getSubtaskId(m, task.id, subtask.id)
                 IN IF Len(deps) = 0 THEN MoveStep(t, s + 1, 1)
                    ELSE IF blockedSubtaskId = Undefined
                    THEN ThrowStep(ErrOf(BlockedSubtaskMsg, subtask.id, task.id))
                    ELSE IF d > Len(deps) THEN MoveStep(t, s + 1, 1)
                    ELSE IF getSubtaskId(m, task.id, deps[d]) = Undefined
                    THEN MoveStep(t, s, d + 1)
                    ELSE CallStep(Call("addDependency", "wireSubtaskDependencies",
                                       blockedSubtaskId,
                                       getSubtaskId(m, task.id, deps[d]),
                                       task.id, subtask.id, ""),
                                  t, s, d + 1)

\* sync/dependency-wirer.ts: wireSubtaskDependencies
wireSubtaskDependenciesStep(ts, m, t, s, d) ==
    IF t > Len(ts) THEN EndStep
    ELSE LET task == ts[t]
             subtasks == task.subtasks
         IN IF s > Len(subtasks) THEN MoveStep(t + 1, 1, 1)
            ELSE LET subtask == subtasks[s]
                     deps == subtask.dependencies
                     blockedSubtaskId == getSubtaskId(m, task.id, subtask.id)
                 IN IF Len(deps) = 0 THEN MoveStep(t, s + 1, 1)
                    ELSE IF blockedSubtaskId = Undefined
                    THEN ThrowStep(ErrOf(BlockedSubtaskMsg, subtask.id, task.id))
                    ELSE IF d > Len(deps) THEN MoveStep(t, s + 1, 1)
                    ELSE IF getSubtaskId(m, task.id, deps[d]) = Undefined
                    THEN ThrowStep(ErrOf(BlockingSubtaskMsg, deps[d], task.id))
                    ELSE CallStep(Call("addDependency", "wireSubtaskDependencies",
                                       blockedSubtaskId,
                                       getSubtaskId(m, task.id, deps[d]),
                                       task.id, subtask.id, ""),
                                  t, s, d + 1)

SubtaskIdNotFoundMsg == "Subtask ID not found for"

\* a verification pass that wires the test issue to the first subtask only
wireTestDependenciesStepFirstOnly(ts, m, t, s) ==
    IF t > Len(ts) THEN EndStep
    ELSE LET task == ts[t]
             testIssueId == getTestIssueId(m, task.id)
         IN IF Len(task.subtasks) = 0 THEN MoveStep(t + 1, 1, 1)
            ELSE IF testIssueId = Undefined THEN MoveStep(t + 1, 1, 1)
            ELSE IF s > 1 THEN MoveStep(t + 1, 1, 1)
            ELSE LET subtaskBeadsId ==
                         getSubtaskId(m, task.id, task.subtasks[s].id)
                 IN IF subtaskBeadsId = Undefined
                    THEN ThrowStep(ErrOf(SubtaskIdNotFoundMsg,
                                         task.subtasks[s].id, task.id))
                    ELSE CallStep(Call("addDependency", "wireTestDependencies",
                                       testIssueId, subtaskBeadsId,
                                       task.id, task.subtasks[s].id, ""),
                                  t, s + 1, 1)

wireTestDependenciesStepNoSkip(ts, m, t, s) ==
    IF t > Len(ts) THEN EndStep
    ELSE LET task == ts[t]
             testIssueId == getTestIssueId(m, task.id)
         IN IF Len(task.subtasks) = 0 THEN MoveStep(t + 1, 1, 1)
            ELSE IF s > Len(task.subtasks) THEN MoveStep(t + 1, 1, 1)
            ELSE LET subtaskBeadsId ==
                         getSubtaskId(m, task.id, task.subtasks[s].id)
                 IN IF subtaskBeadsId = Undefined
                    THEN ThrowStep(ErrOf(SubtaskIdNotFoundMsg,
                                         task.subtasks[s].id, task.id))
                    ELSE CallStep(Call("addDependency", "wireTestDependencies",
                                       testIssueId, subtaskBeadsId,
                                       task.id, task.subtasks[s].id, ""),
                                  t, s + 1, 1)

\* sync/dependency-wirer.ts: wireTestDependencies
wireTestDependenciesStep(ts, m, t, s) ==
    IF t > Len(ts) THEN EndStep
    ELSE LET task == ts[t]
             testIssueId == getTestIssueId(m, task.id)
         IN IF Len(task.subtasks) = 0 THEN MoveStep(t + 1, 1, 1)
            ELSE IF testIssueId = Undefined THEN MoveStep(t + 1, 1, 1)
            ELSE IF s > Len(task.subtasks) THEN MoveStep(t + 1, 1, 1)
            ELSE LET subtaskBeadsId ==
                         getSubtaskId(m, task.id, task.subtasks[s].id)
                 IN IF subtaskBeadsId = Undefined
                    THEN ThrowStep(ErrOf(SubtaskIdNotFoundMsg,
                                         task.subtasks[s].id, task.id))
                    ELSE CallStep(Call("addDependency", "wireTestDependencies",
                                       testIssueId, subtaskBeadsId,
                                       task.id, task.subtasks[s].id, ""),
                                  t, s + 1, 1)

\* 'done' sent as a status update instead of a close
mapStatusDoneAsStatus(tmStatus) ==
    CASE tmStatus = "pending" -> [status |-> "", close |-> FALSE]
      [] tmStatus = "in-progress" -> [status |-> "in_progress", close |-> FALSE]
      [] tmStatus = "done" -> [status |-> "done", close |-> FALSE]
      [] tmStatus = "deferred" -> [status |-> "deferred", close |-> FALSE]
      [] OTHER -> [status |-> "", close |-> FALSE]

\* sync/status-syncer.ts: mapStatus; status "" stands for no status key
mapStatus(tmStatus) ==
    CASE tmStatus = "pending" -> [status |-> "", close |-> FALSE]
      [] tmStatus = "in-progress" -> [status |-> "in_progress", close |-> FALSE]
      [] tmStatus = "done" -> [status |-> "", close |-> TRUE]
      [] tmStatus = "deferred" -> [status |-> "deferred", close |-> FALSE]
      [] OTHER -> [status |-> "", close |-> FALSE]

\* the call syncEpicStatus / syncSubtaskStatus makes for one entity, if any
statusCall(by, issueId, tmStatus, tm, sub) ==
    LET mapped == mapStatus(tmStatus)
    IN IF mapped.close
       THEN Call("close", by, issueId, Undefined, tm, sub, "")
       ELSE IF mapped.status # ""
       THEN Call("updateStatus", by, issueId, Undefined, tm, sub, mapped.status)
       ELSE NoCall

NoBeadsEpicMsg == "No beads epic found for task"

\* a task without a top-level mapping is passed over like a subtask without one
syncAllStatusesStepSkipUnmapped(ts, m, t, s) ==
    IF t > Len(ts) THEN EndStep
    ELSE LET task == ts[t]
         IN IF s = 1
            THEN LET epicId == getEpicId(m, task.id)
                     c == statusCall("syncEpicStatus", epicId, task.status,
                                     task.id, 0)
                 IN IF epicId = Undefined THEN MoveStep(t, 2, 1)
                    ELSE IF c = NoCall THEN MoveStep(t, 2, 1)
                    ELSE CallStep(c, t, 2, 1)
            ELSE IF s - 1 > Len(task.subtasks) THEN MoveStep(t + 1, 1, 1)
            ELSE LET subtask == task.subtasks[s - 1]
                     subtaskId == getSubtaskId(m, task.id, subtask.id)
                     c == statusCall("syncSubtaskStatus", subtaskId,
                                     subtask.status, task.id, subtask.id)
                 IN IF subtaskId = Undefined THEN MoveStep(t, s + 1, 1)
                    ELSE IF c = NoCall THEN MoveStep(t, s + 1, 1)
                    ELSE CallStep(c, t, s + 1, 1)

\* sync/status-syncer.ts: syncAllStatuses.  Position s = 1 is syncEpicStatus,
\* position s = k + 1 is the k-th subtask of syncSubtaskStatus
syncAllStatusesStep(ts, m, t, s) ==
    IF t > Len(ts) THEN EndStep
    ELSE LET task == ts[t]
         IN IF s = 1
            THEN LET epicId == getEpicId(m, task.id)
                     c == statusCall("syncEpicStatus", epicId, task.status,
                                     task.id, 0)
                 IN IF epicId = Undefined
                    THEN ThrowStep(Err(NoBeadsEpicMsg, task.id))
                    ELSE IF c = NoCall THEN MoveStep(t, 2, 1)
                    ELSE CallStep(c, t, 2, 1)
            ELSE IF s - 1 > Len(task.subtasks) THEN MoveStep(t + 1, 1, 1)
            ELSE LET subtask == task.subtasks[s - 1]
                     subtaskId == getSubtaskId(m, task.id, subtask.id)
                     c == statusCall("syncSubtaskStatus", subtaskId,
                                     subtask.status, task.id, subtask.id)
                 IN IF subtaskId = Undefined THEN MoveStep(t, s + 1, 1)
                    ELSE IF c = NoCall THEN MoveStep(t, s + 1, 1)
                    ELSE CallStep(c, t, s + 1, 1)

----------------------------------------------------------------------------
(* Properties of a task list, stated without the resolver *)

SeqsUpTo(S, n) == UNION {[1..m -> S] : m \in 0..n}

UniqueIds(ts) == \A a, b \in DOMAIN ts : ts[a].id = ts[b].id => a = b

IdsOf(ts) == {ts[k].id : k \in DOMAIN ts}

AllDepsExist(ts) ==
    \A k \in DOMAIN ts : Range(ts[k].dependencies) \subseteq IdsOf(ts)

HasSelfRef(ts) == \E k \in DOMAIN ts : ts[k].id \in Range(ts[k].dependencies)

\* ids that some task with an id in S depends on
DepsOfIds(ts, S) ==
    UNION {Range(ts[k].dependencies) : k \in {m \in DOMAIN ts : ts[m].id \in S}}

RECURSIVE ReachableFrom(_, _)
ReachableFrom(ts, S) ==
    LET T == S \cup DepsOfIds(ts, S)
    IN IF T = S THEN S ELSE ReachableFrom(ts, T)

\* the dependency graph has a cycle (a self loop included)
HasCycle(ts) ==
    \E n \in IdsOf(ts) : n \in ReachableFrom(ts, DepsOfIds(ts, {n}))

ListPermutations(ts) ==
    {[k \in DOMAIN ts |-> ts[f[k]]] :
        f \in {g \in [DOMAIN ts -> DOMAIN ts] :
                 \A a, b \in DOMAIN ts : g[a] = g[b] => a = b}}

\* the (id, tier) pairs of a resolver result, in order
PairsOf(r) == [k \in DOMAIN r.out |-> <<r.out[k].task.id, r.out[k].tier>>]

SortedByTierThenId(out) ==
    \A a, b \in DOMAIN out :
        a < b => \/ out[a].tier < out[b].tier
                 \/ /\ out[a].tier = out[b].tier
                    /\ out[a].task.id <= out[b].task.id

TierIn(out, n) == (CHOOSE e \in Range(out) : e.task.id = n).tier

----------------------------------------------------------------------------
(* topologicalSort applied to the task lists of bounded size *)

(* schemas/taskmaster.ts: validateCircularDependencies *)

CircularMsg == "Circular dependency"

\* the error string `Circular dependency: ${cyclePath.join(' -> ')}`
CircularDependency(cyclePath) == [msg |-> CircularMsg, path |-> cyclePath]

\* adjacency.set(task.id, task.dependencies) for each task: the last task of
\* an id is the one the map keeps
adjacencyOf(ts) ==
    [n \in {ts[k].id : k \in DOMAIN ts} |->
        ts[CHOOSE k \in DOMAIN ts :
              /\ ts[k].id = n
              /\ \A j \in DOMAIN ts : ts[j].id = n => j <= k].dependencies]

\* Array.prototype.indexOf, counting from 0; -1 when x is not in s
indexOf(s, x) ==
    IF \E i \in DOMAIN s : s[i] = x
    THEN (CHOOSE i \in DOMAIN s : s[i] = x /\ \A j \in 1..(i - 1) : s[j] # x) - 1
    ELSE 0 - 1

\* Array.prototype.slice(start): a negative start counts from the end
slice(s, start) ==
    LET from == IF start >= 0 THEN start
                ELSE IF Len(s) + start > 0 THEN Len(s) + start ELSE 0
    IN SubSeq(s, from + 1, Len(s))

DfsStart == [visited |-> {}, visiting |-> {}, path |-> <<>>, errors |-> <<>>]

RECURSIVE dfs(_, _, _)
RECURSIVE dfsDeps(_, _, _, _)

\* a dfs that leaves the node in `visiting` when it returns
dfsKeepsVisiting(adjacency, st, taskId) ==
    IF taskId \in st.visiting
    THEN LET cyclePath == Append(slice(st.path, indexOf(st.path, taskId)), taskId)
         IN [st EXCEPT !.errors = Append(@, CircularDependency(cyclePath))]
    ELSE IF taskId \in st.visited THEN st
    ELSE LET s1 == [st EXCEPT !.visiting = @ \cup {taskId},
                              !.path = Append(@, taskId)]
             deps == IF taskId \in DOMAIN adjacency THEN adjacency[taskId]
                     ELSE <<>>
             s2 == dfsDeps(adjacency, s1, deps, 1)
         IN [s2 EXCEPT !.path = SubSeq(@, 1, Len(@) - 1),
                       !.visited = @ \cup {taskId}]

\* dfs(taskId, path): the boolean it returns is not used by any caller
dfs(adjacency, st, taskId) ==
    IF taskId \in st.visiting
    THEN LET cyclePath == Append(slice(st.path, indexOf(st.path, taskId)), taskId)
         IN [st EXCEPT !.errors = Append(@, CircularDependency(cyclePath))]
    ELSE IF taskId \in st.visited THEN st
    ELSE LET s1 == [st EXCEPT !.visiting = @ \cup {taskId},
                              !.path = Append(@, taskId)]
             deps == IF taskId \in DOMAIN adjacency THEN adjacency[taskId]
                     ELSE <<>>
             s2 == dfsDeps(adjacency, s1, deps, 1)
         IN [s2 EXCEPT !.path = SubSeq(@, 1, Len(@) - 1),
                       !.visiting = @ \ {taskId},
                       !.visited = @ \cup {taskId}]

\* the loop over deps: every branch is followed, whatever dfs returned
dfsDeps(adjacency, st, deps, k) ==
    IF k > Len(deps) THEN st
    ELSE dfsDeps(adjacency, dfs(adjacency, st, deps[k]), deps, k + 1)

\* the loop over tasks: dfs from every task not visited yet
RECURSIVE dfsAll(_, _, _, _)
dfsAll(adjacency, st, ts, k) ==
    IF k > Len(ts) THEN st
    ELSE IF ts[k].id \in st.visited THEN dfsAll(adjacency, st, ts, k + 1)
    ELSE dfsAll(adjacency, dfs(adjacency, st, ts[k].id), ts, k + 1)

validateCircularDependencies(ts) ==
    LET st == dfsAll(adjacencyOf(ts), DfsStart, ts, 1)
    IN [valid |-> Len(st.errors) = 0, errors |-> st.errors]

NodeForSort == [id : 1..MaxNodes,
                dependencies : SeqsUpTo(1..(MaxNodes + 1), MaxDeps)]

SortInputs == SeqsUpTo(NodeForSort, MaxNodes)

NoSortResult == [err |-> NoErr, out |-> <<>>]
\* validateCircularDependencies has not been called
NoValidation == [valid |-> TRUE, errors |-> <<>>]
NoOpts == [dryRun |-> FALSE, force |-> FALSE, resume |-> FALSE]
Absent == [present |-> FALSE, version |-> "", tasks |-> <<>>]
\* no exit status yet: the process is alive
Running == <<>>

\* the variables of the sync command, as they are before a run starts
RunReset ==
    /\ opts = NoOpts
    /\ mapper = <<>>
    /\ loaded = <<>>
    /\ ti = 1
    /\ si = 1
    /\ di = 1
    /\ count = 0
    /\ log = <<>>
    /\ inFlight = {}
    /\ nextId = 0
    /\ exitCode = Running
    /\ error = NoErr
    /\ ordered = <<>>
    /\ sortResult = NoSortResult
    /\ progress = <<>>
    /\ validation = NoValidation

SortInit ==
    /\ tasks \in SortInputs
    /\ pc = "sortInput"
    /\ disk = Absent
    /\ diskBefore = Absent
    /\ epoch = 0
    /\ RunReset

ApplySort ==
    /\ pc = "sortInput"
    /\ sortResult' = topologicalSort(tasks)
    /\ pc' = "sortOutput"
    /\ UNCHANGED <<tasks, opts, disk, diskBefore, mapper, loaded, ti, si, di,
                   count, log, inFlight, nextId, exitCode, error, epoch,
                   ordered, progress, validation>>

SortNext == ApplySort

SortSpec == SortInit /\ [][SortNext]_vars

----------------------------------------------------------------------------
(* topologicalSort followed by validateCircularDependencies, on the same    *)
(* task list                                                                *)

ApplyValidate ==
    /\ pc = "sortOutput"
    /\ validation' = validateCircularDependencies(tasks)
    /\ pc' = "validated"
    /\ UNCHANGED <<tasks, opts, disk, diskBefore, mapper, loaded, ti, si, di,
                   count, log, inFlight, nextId, exitCode, error, epoch,
                   ordered, sortResult, progress>>

CycleNext ==
    \/ ApplySort
    \/ ApplyValidate

CycleSpec == SortInit /\ [][CycleNext]_vars

----------------------------------------------------------------------------
(* index.ts: the sync command action *)

\* an order that reconciles the statuses before it wires the dependencies
StageOrderSyncFirst ==
    <<"createEpics", "createChildren", "createTests", "sync", "wireEpic",
      "wireSub", "wireTest", "save">>

\* the stages 7 to 11 of the action, in the order of its statements
StageOrder ==
    <<"createEpics", "createChildren", "createTests", "wireEpic", "wireSub",
      "wireTest", "sync", "save">>

CallStages == Range(StageOrder) \ {"save"}

subtaskCountOf(ts) ==
    LET RECURSIVE sum(_)
        sum(k) == IF k = 0 THEN 0 ELSE sum(k - 1) + Len(ts[k].subtasks)
    IN sum(Len(ts))

\* the conditions under which the action enters a stage
StageRuns(stage, ts) ==
    CASE stage = "createChildren" -> subtaskCountOf(ts) > 0
      [] stage = "createTests" -> \E k \in DOMAIN ts : Truthy(ts[k].testStrategy)
      [] OTHER -> TRUE

RECURSIVE firstRunnable(_, _)
firstRunnable(k, ts) ==
    IF k > Len(StageOrder) THEN "done"
    ELSE IF StageRuns(StageOrder[k], ts) THEN StageOrder[k]
    ELSE firstRunnable(k + 1, ts)

\* an action that returns after the status reconciler, without saving
NextStageWithoutSave(stage, ts) ==
    IF stage = "sync" THEN "done"
    ELSE firstRunnable((CHOOSE k \in DOMAIN StageOrder : StageOrder[k] = stage) + 1,
                       ts)

\* the verification pass entered before the child pass
NextStageTestBeforeSub(stage, ts) ==
    CASE stage = "wireEpic" -> "wireTest"
      [] stage = "wireTest" -> "wireSub"
      [] stage = "wireSub" -> "sync"
      [] OTHER ->
            firstRunnable((CHOOSE k \in DOMAIN StageOrder : StageOrder[k] = stage) + 1,
                          ts)

NextStage(stage, ts) ==
    firstRunnable((CHOOSE k \in DOMAIN StageOrder : StageOrder[k] = stage) + 1, ts)

\* the stage function of a stage, at a position of its loops
StageStep(stage, ts, m, t, s, d) ==
    CASE stage = "createEpics" -> createEpicsStep(ts, m, t)
      [] stage = "createChildren" -> createAllChildrenStep(ts, m, t, s)
      [] stage = "createTests" -> createAllTestChildrenStep(ts, m, t)
      [] stage = "wireEpic" -> wireEpicDependenciesStep(ts, m, t, s)
      [] stage = "wireSub" -> wireSubtaskDependenciesStep(ts, m, t, s, d)
      [] stage = "wireTest" -> wireTestDependenciesStep(ts, m, t, s)
      [] stage = "sync" -> syncAllStatusesStep(ts, m, t, s)

\* a total that counts the tasks in every creation stage
stageTotalTaskCount(stage, ts) ==
    CASE stage \in {"createEpics", "createChildren", "createTests"} -> Len(ts)
      [] OTHER -> 0

\* total of the progress callback of a creation stage
stageTotal(stage, ts) ==
    CASE stage = "createEpics" -> Len(ts)
      [] stage = "createChildren" -> subtaskCountOf(ts)
      [] stage = "createTests" ->
            Cardinality({k \in DOMAIN ts : Truthy(ts[k].testStrategy)})
      [] OTHER -> 0

ProgressStages == {"createEpics", "createChildren", "createTests"}

\* a catch block that persists the store before it exits
CatchAndSave(e) ==
    /\ pc' = "exited"
    /\ exitCode' = <<1>>
    /\ error' = e
    /\ disk' = savedDocument(mapper)
    /\ epoch' = epoch

\* the catch block of the action: report and process.exit(1)
Catch(e) ==
    /\ pc' = "exited"
    /\ exitCode' = <<1>>
    /\ error' = e
    /\ disk' = disk
    /\ epoch' = epoch

\* a missing await: the next call is issued whatever is in flight
AwaitSkipped(flying) == TRUE

\* await: the caller goes on when the call it issued has settled
AwaitDone(flying) == flying = {}

OptionSets == [dryRun : BOOLEAN, force : BOOLEAN, resume : BOOLEAN]

NotInitialisedMsg == "Beads is not initialised in this project"
MappingExistsMsg == "Mapping file already exists"
ExternalCallMsg == "external call failed"

\* the command is invoked with some options
StartRun ==
    /\ pc \in {"idle", "done", "exited"}
    /\ epoch < MaxSavedRuns
    /\ opts' \in OptionSets
    /\ pc' = "checkInit"
    /\ diskBefore' = disk
    /\ mapper' = <<>>
    /\ loaded' = <<>>
    /\ ti' = 1 /\ si' = 1 /\ di' = 1 /\ count' = 0
    /\ log' = <<>>
    /\ inFlight' = {}
    /\ nextId' = 0
    /\ exitCode' = Running
    /\ error' = NoErr
    /\ ordered' = <<>>
    /\ sortResult' = NoSortResult
    /\ progress' = <<>>
    /\ UNCHANGED <<tasks, disk, epoch, validation>>

\* 1. check beads init
CheckInit ==
    /\ pc = "checkInit"
    /\ \E isInit \in BOOLEAN :
          IF isInit
          THEN pc' = "checkMapping" /\ UNCHANGED <<exitCode, error,
                                                   validation>>
          ELSE /\ pc' = "exited"
               /\ exitCode' = <<1>>
               /\ error' = Err(NotInitialisedMsg, 0)
    /\ UNCHANGED <<tasks, opts, disk, diskBefore, mapper, loaded, ti, si, di,
                   count, log, inFlight, nextId, epoch, ordered, sortResult,
                   progress, validation>>

\* a mapper that is loaded whenever the mapping file exists
initialMapperLoadsExisting(o, document) ==
    IF document.present THEN loadedTasks(document) ELSE <<>>

\* 3. load or create IdMapper
initialMapper(o, document) ==
    IF o.resume /\ document.present THEN loadedTasks(document) ELSE <<>>

\* an idempotency check that only force gets past
MappingBlocksUnlessForce(o, document) == document.present /\ ~o.force

\* 2. mapExists && !opts.force && !opts.resume
MappingBlocks(o, document) == document.present /\ ~o.force /\ ~o.resume

\* 2. and 3.: the idempotency check, then the mapper of the run
CheckMapping ==
    /\ pc = "checkMapping"
    /\ IF MappingBlocks(opts, disk)
       THEN /\ pc' = "exited"
            /\ exitCode' = <<1>>
            /\ error' = Err(MappingExistsMsg, 0)
            /\ UNCHANGED <<mapper, loaded, validation>>
       ELSE /\ pc' = "parseAndSort"
            /\ mapper' = initialMapper(opts, disk)
            /\ loaded' = initialMapper(opts, disk)
            /\ UNCHANGED <<exitCode, error, validation>>
    /\ UNCHANGED <<tasks, opts, disk, diskBefore, ti, si, di, count, log,
                   inFlight, nextId, epoch, ordered, sortResult, progress,
                   validation>>

\* a resolver error that is not taken as fatal
SortFailedIgnored(res) == FALSE

\* topologicalSort threw
SortFailed(res) == res.err # NoErr

\* 4. to 6. without the return of the dry run
ParseAndSortThroughDryRun ==
    /\ pc = "parseAndSort"
    /\ LET res == topologicalSort(tasks)
       IN /\ sortResult' = res
          /\ IF SortFailed(res)
             THEN Catch(res.err) /\ UNCHANGED ordered
             ELSE /\ ordered' = [k \in DOMAIN res.out |-> res.out[k].task]
                  /\ pc' = firstRunnable(1, tasks) /\ exitCode' = exitCode
                  /\ UNCHANGED <<error, disk, epoch, validation>>
    /\ UNCHANGED <<tasks, opts, diskBefore, mapper, loaded, ti, si, di, count,
                   log, inFlight, nextId, progress, validation>>

\* 4. to 6.: parse tasks.json, topological sort, dry run
ParseAndSort ==
    /\ pc = "parseAndSort"
    /\ LET res == topologicalSort(tasks)
       IN /\ sortResult' = res
          /\ IF SortFailed(res)
             THEN Catch(res.err) /\ UNCHANGED ordered
             ELSE /\ ordered' = [k \in DOMAIN res.out |-> res.out[k].task]
                  /\ IF opts.dryRun
                     THEN pc' = "done" /\ exitCode' = <<0>>
                     ELSE pc' = firstRunnable(1, tasks) /\ exitCode' = exitCode
                  /\ UNCHANGED <<error, disk, epoch, validation>>
    /\ UNCHANGED <<tasks, opts, diskBefore, mapper, loaded, ti, si, di, count,
                   log, inFlight, nextId, progress, validation>>

\* a stage function reaches a call of the bd command and issues it
Issue ==
    /\ pc \in CallStages
    /\ AwaitDone(inFlight)
    /\ LET st == StageStep(pc, ordered, mapper, ti, si, di)
       IN /\ st.kind = "call"
          /\ log' = Append(log, st.call)
          /\ inFlight' = inFlight \cup {Len(log) + 1}
    /\ UNCHANGED <<tasks, opts, disk, diskBefore, mapper, loaded, pc, ti, si,
                   di, count, nextId, exitCode, error, epoch, ordered,
                   sortResult, progress, validation>>

\* a registration that forgets the verification item
registeredWithoutTests(m, c, beadsId) ==
    CASE c.by = "createEpic" -> Stored(addEpic(m, c.tm, beadsId), NoErr)
      [] c.by = "createAllChildren" -> addSubtask(m, c.tm, c.sub, beadsId)
      [] OTHER -> Stored(m, NoErr)

\* what the store registers for a create that returned beadsId
registered(m, c, beadsId) ==
    CASE c.by = "createEpic" -> Stored(addEpic(m, c.tm, beadsId), NoErr)
      [] c.by = "createAllChildren" -> addSubtask(m, c.tm, c.sub, beadsId)
      [] c.by = "createTestChild" -> setTestIssueId(m, c.tm, beadsId)
      [] OTHER -> Stored(m, NoErr)

\* the call log[k] resolves: the caller registers the result, reports
\* progress and moves on in its loops
CallSucceeded(k) ==
    LET c == log[k]
        st == StageStep(pc, ordered, mapper, ti, si, di)
        beadsId == IF c.op \in CreateOps THEN <<epoch, nextId + 1>> ELSE Undefined
        stored == registered(mapper, c, beadsId)
    IN /\ log' = [log EXCEPT ![k].outcome = "ok", ![k].ret = beadsId]
       /\ inFlight' = inFlight \ {k}
       /\ nextId' = IF c.op \in CreateOps THEN nextId + 1 ELSE nextId
       /\ IF stored.err # NoErr
          THEN /\ Catch(stored.err)
               /\ UNCHANGED <<mapper, ti, si, di, count, progress, validation>>
          ELSE /\ mapper' = stored.m
               /\ ti' = st.ti /\ si' = st.si /\ di' = st.di
               /\ count' = count + 1
               /\ progress' =
                     IF pc \in ProgressStages
                     THEN Append(progress, [stage |-> pc, current |-> count + 1,
                                            total |-> stageTotal(pc, ordered)])
                     ELSE progress
               /\ UNCHANGED <<pc, exitCode, error, disk, epoch, validation>>

\* a failed call that is swallowed: the caller stays where it is
CallFailedSwallowed(k) ==
    /\ log' = [log EXCEPT ![k].outcome = "fail"]
    /\ inFlight' = inFlight \ {k}
    /\ UNCHANGED <<pc, exitCode, error, disk, epoch, mapper, ti, si, di, count,
                   progress, nextId, validation>>

\* the call log[k] rejects: nothing catches it before the action's catch block
CallFailed(k) ==
    /\ log' = [log EXCEPT ![k].outcome = "fail"]
    /\ inFlight' = inFlight \ {k}
    /\ Catch(Err(ExternalCallMsg, k))
    /\ UNCHANGED <<mapper, ti, si, di, count, progress, nextId, validation>>

\* a call in flight settles
Settle ==
    /\ pc \in CallStages
    /\ \E k \in inFlight : CallSucceeded(k) \/ CallFailed(k)
    /\ UNCHANGED <<tasks, opts, diskBefore, loaded, ordered, sortResult,
                   validation>>

\* a stage function goes on without a call: to the next position of its
\* loops, out with an error, or back to the action, which enters the next stage
Advance ==
    /\ pc \in CallStages
    /\ inFlight = {}
    /\ LET st == StageStep(pc, ordered, mapper, ti, si, di)
       IN \/ /\ st.kind = "move"
             /\ ti' = st.ti /\ si' = st.si /\ di' = st.di
             /\ UNCHANGED <<pc, exitCode, error, disk, epoch, count,
                            validation>>
          \/ /\ st.kind = "throw"
             /\ Catch(st.err)
             /\ UNCHANGED <<ti, si, di, count, validation>>
          \/ /\ st.kind = "end"
             /\ pc' = NextStage(pc, tasks)
             /\ ti' = 1 /\ si' = 1 /\ di' = 1 /\ count' = 0
             /\ UNCHANGED <<exitCode, error, disk, epoch, validation>>
    /\ UNCHANGED <<tasks, opts, diskBefore, mapper, loaded, log, inFlight,
                   nextId, ordered, sortResult, progress, validation>>

\* 11. and 12.: save the mapping, success
Save ==
    /\ pc = "save"
    /\ disk' = savedDocument(mapper)
    /\ log' = Append(log, SaveEntry)
    /\ epoch' = epoch + 1
    /\ pc' = "done"
    /\ exitCode' = <<0>>
    /\ UNCHANGED <<tasks, opts, diskBefore, mapper, loaded, ti, si, di, count,
                   inFlight, nextId, error, ordered, sortResult, progress,
                   validation>>

----------------------------------------------------------------------------
(* The task lists of the sync runs *)

Statuses == <<"pending", "in-progress", "done", "deferred">>

\* statuses are handed out in rotation: every entity meets every status
StatusFor(rotation, n) == Statuses[((rotation + n) % Len(Statuses)) + 1]

Subtask(id, deps) == [id |-> id, dependencies |-> deps]

\* the subtask lists a task may carry: none, one, two in descending order
\* with the second depending on the first, and one that depends on a
\* subtask its parent does not have
SubtaskLists ==
    { <<>>,
      <<Subtask(1, <<>>)>>,
      <<Subtask(2, <<1>>), Subtask(1, <<>>)>>,
      <<Subtask(1, <<2>>)>> }

\* testStrategy: absent, or a text
TestStrategies == { <<>>, <<"strategy">> }

Decorations == [subtasks : SubtaskLists, testStrategy : TestStrategies]

PlainDecoration == [subtasks |-> <<>>, testStrategy |-> <<>>]

TaskOf(id, deps, decoration, rotation) ==
    [id |-> id,
     dependencies |-> deps,
     status |-> StatusFor(rotation, id),
     testStrategy |-> decoration.testStrategy,
     subtasks |->
        [k \in DOMAIN decoration.subtasks |->
            [id |-> decoration.subtasks[k].id,
             dependencies |-> decoration.subtasks[k].dependencies,
             status |-> StatusFor(rotation, id + decoration.subtasks[k].id)]]]

ProjectOf(n, deps, decorations, rotation) ==
    [k \in 1..n |-> TaskOf(k, deps[k], decorations[k], rotation)]

TaskDepLists == SeqsUpTo(1..(MaxTasks + 1), MaxDeps)

\* every dependency graph over up to MaxTasks tasks, the tasks undecorated
GraphInputs ==
    UNION {{ProjectOf(n, deps, [k \in 1..n |-> PlainDecoration], 0) :
               deps \in [1..n -> TaskDepLists]} : n \in 0..MaxTasks}

\* every decoration and status rotation of the task lists the resolver accepts
DecoratedInputs ==
    UNION {{ProjectOf(n, g, x, r) :
               g \in {deps \in [1..n -> TaskDepLists] :
                        LET ts == ProjectOf(n, deps, [k \in 1..n |-> PlainDecoration], 0)
                        IN AllDepsExist(ts) /\ ~HasCycle(ts)},
               x \in [1..n -> Decorations],
               r \in 0..(Len(Statuses) - 1)} : n \in 0..MaxTasks}

ProjectInputs == GraphInputs \cup DecoratedInputs

Init ==
    /\ tasks \in ProjectInputs
    /\ pc = "idle"
    /\ disk = Absent
    /\ diskBefore = Absent
    /\ epoch = 0
    /\ RunReset

Next ==
    \/ StartRun
    \/ CheckInit
    \/ CheckMapping
    \/ ParseAndSort
    \/ Issue
    \/ Settle
    \/ Advance
    \/ Save

Spec == Init /\ [][Next]_vars

----------------------------------------------------------------------------
(* An IdMapper on its own: any sequence of its operations, with the mapping *)
(* file written by save or put in place by someone else                     *)

StoreIds == 1..MaxTasks
TargetIds == {<<0, n>> : n \in 1..MaxTasks}

\* the last operation applied: its name, its arguments and the store before it
StoreOp(op, p, c, y) == [op |-> op, p |-> p, c |-> c, y |-> y, before |-> mapper]

StoreInit ==
    /\ tasks = <<>>
    /\ pc = "store"
    /\ disk = Absent
    /\ diskBefore = Absent
    /\ epoch = 0
    /\ RunReset

\* count is the number of register operations applied so far
StoreStep(op, m, e) ==
    /\ pc = "store"
    /\ count' = IF op.op \in {"save", "load"} THEN count ELSE count + 1
    /\ count' <= MaxStoreOps
    /\ log' = <<op>>
    /\ mapper' = m
    /\ error' = e
    /\ UNCHANGED <<tasks, opts, diskBefore, ti, si, di, inFlight, nextId,
                   exitCode, epoch, ordered, sortResult, progress, validation>>

StoreAddEpic ==
    \E t \in StoreIds, x \in TargetIds :
        /\ StoreStep(StoreOp("addEpic", t, 0, x), addEpic(mapper, t, x), NoErr)
        /\ UNCHANGED <<disk, loaded, pc, validation>>

StoreAddSubtask ==
    \E p \in StoreIds, c \in StoreIds, y \in TargetIds :
        LET r == addSubtask(mapper, p, c, y)
        IN /\ StoreStep(StoreOp("addSubtask", p, c, y), r.m, r.err)
           /\ UNCHANGED <<disk, loaded, pc, validation>>

StoreSetTestIssueId ==
    \E p \in StoreIds, y \in TargetIds :
        LET r == setTestIssueId(mapper, p, y)
        IN /\ StoreStep(StoreOp("setTestIssueId", p, 0, y), r.m, r.err)
           /\ UNCHANGED <<disk, loaded, pc, validation>>

\* save(filePath); loaded keeps the store the file was written from
StoreSave ==
    /\ StoreStep(StoreOp("save", 0, 0, Undefined), mapper, NoErr)
    /\ disk' = savedDocument(mapper)
    /\ loaded' = mapper
    /\ UNCHANGED pc

\* the mapping file is removed or replaced from outside
StoreFileReplaced ==
    /\ pc = "store"
    /\ disk' \in {Absent, Garbage, EmptyObject}
    /\ disk' # disk
    /\ UNCHANGED <<tasks, opts, diskBefore, mapper, loaded, pc, ti, si, di,
                   count, log, inFlight, nextId, exitCode, error, epoch,
                   ordered, sortResult, progress, validation>>

\* IdMapper.load(filePath): the caller goes on with the instance it returns;
\* when load throws it keeps the store it had
StoreLoad ==
    LET r == load(disk)
    IN /\ StoreStep(StoreOp("load", 0, 0, Undefined),
                    IF r.err = NoErr /\ "tasks" \in DOMAIN r.store
                    THEN r.store.tasks ELSE mapper,
                    r.err)
       /\ pc' = IF r.err = NoErr /\ "tasks" \notin DOMAIN r.store
                THEN "storeWithoutTasks" ELSE pc
       /\ UNCHANGED <<disk, loaded, validation>>

\* a lookup or a register operation on an instance that has no tasks:
\* this.tasks.find / this.tasks.push throws
StoreUseWithoutTasks ==
    /\ pc = "storeWithoutTasks"
    /\ pc' = "storeFailed"
    /\ error' = Err(TypeErrorMsg, 0)
    /\ \E t \in StoreIds : log' = <<StoreOp("getEpicId", t, 0, Undefined)>>
    /\ UNCHANGED <<tasks, opts, disk, diskBefore, mapper, loaded, ti, si, di,
                   count, inFlight, nextId, exitCode, epoch, ordered,
                   sortResult, progress, validation>>

StoreNext ==
    \/ StoreAddEpic
    \/ StoreAddSubtask
    \/ StoreSetTestIssueId
    \/ StoreSave
    \/ StoreFileReplaced
    \/ StoreLoad
    \/ StoreUseWithoutTasks

StoreSpec == StoreInit /\ [][StoreNext]_vars

----------------------------------------------------------------------------
(* wireAllDependencies on its own: the three passes over a task list and a  *)
(* store that need not hold a mapping for everything in the list            *)

WireStages == {"wireEpic", "wireSub", "wireTest"}

\* the subtask lists of the tasks given to the wirer
WireSubtaskLists ==
    { <<>>,
      <<Subtask(1, <<>>)>>,
      <<Subtask(2, <<1>>), Subtask(1, <<>>)>>,
      <<Subtask(1, <<2>>)>> }

WireDecorations == [subtasks : WireSubtaskLists, testStrategy : {<<>>}]

WireInputs ==
    UNION {{ProjectOf(n, deps, x, 0) :
               deps \in [1..n -> SeqsUpTo(1..MaxTasks, MaxDeps)],
               x \in [1..n -> WireDecorations]} : n \in 0..MaxTasks}

\* what a store may hold for one task: nothing, or a top-level entry with
\* or without a test issue and with child entries for the subtasks 1..kids
StorePieces ==
    {[epic |-> FALSE, test |-> FALSE, kids |-> 0]}
        \cup [epic : {TRUE}, test : BOOLEAN, kids : 0..2]

RECURSIVE withKids(_, _, _)
withKids(m, t, k) ==
    IF k = 0 THEN m
    ELSE addSubtask(withKids(m, t, k - 1), t, k, <<t, k>>).m

withPiece(m, t, piece) ==
    IF ~piece.epic THEN m
    ELSE LET m1 == withKids(addEpic(m, t, <<0, t>>), t, piece.kids)
         IN IF piece.test THEN setTestIssueId(m1, t, <<t, 0>>).m ELSE m1

\* the store built by registering, task by task, what pieces says
RECURSIVE storeOf(_, _)
storeOf(pieces, t) ==
    IF t = 0 THEN <<>> ELSE withPiece(storeOf(pieces, t - 1), t, pieces[t])

WireStores == {storeOf(pieces, MaxTasks) : pieces \in [1..MaxTasks -> StorePieces]}

WireInit ==
    /\ tasks \in WireInputs
    /\ ordered = tasks
    /\ mapper \in WireStores
    /\ loaded = mapper
    /\ pc = "wireEpic"
    /\ opts = NoOpts
    /\ disk = Absent
    /\ diskBefore = Absent
    /\ epoch = 0
    /\ ti = 1 /\ si = 1 /\ di = 1 /\ count = 0
    /\ log = <<>>
    /\ inFlight = {}
    /\ nextId = 0
    /\ exitCode = Running
    /\ error = NoErr
    /\ sortResult = NoSortResult
    /\ progress = <<>>
    /\ validation = NoValidation

\* a step of one of the three passes; the caller of wireAllDependencies
\* takes over when the third pass has returned or a pass has thrown
WireNext ==
    /\ pc \in WireStages
    /\ \/ Issue
       \/ Settle
       \/ Advance

WireSpec == WireInit /\ [][WireNext]_vars

----------------------------------------------------------------------------
(* The status reconciler on its own: syncAllStatuses over task lists whose  *)
(* status strings are any strings, those of the schema and others, and over *)
(* stores that hold some of the entities.                                   *)

\* mapStatus(tmStatus: string): the four statuses it names and other strings
StatusStrings ==
    {"pending", "in-progress", "done", "deferred", "in_progress", "cancelled"}

StatusSubtask(id, status) == [id |-> id, dependencies |-> <<>>, status |-> status]

\* no subtask, one subtask of any status, or two subtasks
StatusSubtaskLists ==
    {<<>>, <<StatusSubtask(2, "done"), StatusSubtask(1, "in-progress")>>}
        \cup {<<StatusSubtask(1, x)>> : x \in StatusStrings}

StatusTask(id, status, subtasks) ==
    [id |-> id, dependencies |-> <<>>, status |-> status,
     testStrategy |-> <<>>, subtasks |-> subtasks]

StatusInputs ==
    UNION {{[k \in 1..n |-> StatusTask(k, x[k].status, x[k].subtasks)] :
               x \in [1..n -> [status : StatusStrings,
                               subtasks : StatusSubtaskLists]]} :
           n \in 0..MaxTasks}

StatusStores ==
    {storeOf(pieces, MaxTasks) :
        pieces \in [1..MaxTasks -> {p \in StorePieces : ~p.test}]}

StatusInit ==
    /\ tasks \in StatusInputs
    /\ ordered = tasks
    /\ mapper \in StatusStores
    /\ loaded = mapper
    /\ pc = "sync"
    /\ opts = NoOpts
    /\ disk = Absent
    /\ diskBefore = Absent
    /\ epoch = 0
    /\ ti = 1 /\ si = 1 /\ di = 1 /\ count = 0
    /\ log = <<>>
    /\ inFlight = {}
    /\ nextId = 0
    /\ exitCode = Running
    /\ error = NoErr
    /\ sortResult = NoSortResult
    /\ progress = <<>>
    /\ validation = NoValidation

\* a step of syncAllStatuses; its caller takes over when it has returned
\* or thrown
StatusNext ==
    /\ pc = "sync"
    /\ \/ Issue
       \/ Settle
       \/ Advance

StatusSpec == StatusInit /\ [][StatusNext]_vars

----------------------------------------------------------------------------
(* The child creator and the verification-item creator on their own:       *)
(* createAllChildren followed by createAllTestChildren, or the latter      *)
(* alone, over stores that hold the top-level entries of some of the tasks. *)

CreatorStages == {"createChildren", "createTests"}

\* testStrategy: absent, the empty string, or a text
CreatorDecorations ==
    [subtasks : SubtaskLists, testStrategy : TestStrategies \cup {<<"">>}]

CreatorInputs ==
    UNION {{ProjectOf(n, [k \in 1..n |-> <<>>], x, 0) :
               x \in [1..n -> CreatorDecorations]} : n \in 0..MaxTasks}

\* the stores createEpics may have left: a top-level entry or none per task
CreatorStores ==
    {storeOf(pieces, MaxTasks) :
        pieces \in [1..MaxTasks -> {p \in StorePieces : ~p.test /\ p.kids = 0}]}

CreatorInit ==
    /\ tasks \in CreatorInputs
    /\ ordered = tasks
    /\ mapper \in CreatorStores
    /\ loaded = mapper
    /\ pc \in {s \in CreatorStages : StageRuns(s, tasks)}
    /\ opts = NoOpts
    /\ disk = Absent
    /\ diskBefore = Absent
    /\ epoch = 0
    /\ ti = 1 /\ si = 1 /\ di = 1 /\ count = 0
    /\ log = <<>>
    /\ inFlight = {}
    /\ nextId = 0
    /\ exitCode = Running
    /\ error = NoErr
    /\ sortResult = NoSortResult
    /\ progress = <<>>
    /\ validation = NoValidation

\* a step of one of the two creators; their caller takes over when the
\* verification-item creator has returned or a creator has thrown
CreatorNext ==
    /\ pc \in CreatorStages
    /\ \/ Issue
       \/ Settle
       \/ Advance

CreatorSpec == CreatorInit /\ [][CreatorNext]_vars

----------------------------------------------------------------------------
(* The sync command over one project of three tasks, task 2 depending on   *)
(* task 1 and task 3 on tasks 1 and 2, without subtasks and test           *)
(* strategies, the tasks listed in any order.                              *)

ThreeTaskChain ==
    <<TaskOf(1, <<>>, PlainDecoration, 0),
      TaskOf(2, <<1>>, PlainDecoration, 0),
      TaskOf(3, <<1, 2>>, PlainDecoration, 0)>>

EndToEndInit ==
    /\ tasks \in ListPermutations(ThreeTaskChain)
    /\ pc = "idle"
    /\ disk = Absent
    /\ diskBefore = Absent
    /\ epoch = 0
    /\ RunReset

EndToEndSpec == EndToEndInit /\ [][Next]_vars

----------------------------------------------------------------------------
(* The sync command over the projects of ChainTasks plain tasks in which   *)
(* every task names at most one dependency: chains, forks, cycles.         *)

ChainTasks == 3

ChainInputs ==
    {ProjectOf(ChainTasks, deps, [k \in 1..ChainTasks |-> PlainDecoration], 0) :
        deps \in [1..ChainTasks -> SeqsUpTo(1..ChainTasks, 1)]}

ChainInit ==
    /\ tasks \in ChainInputs
    /\ pc = "idle"
    /\ disk = Absent
    /\ diskBefore = Absent
    /\ epoch = 0
    /\ RunReset

ChainSpec == ChainInit /\ [][Next]_vars

----------------------------------------------------------------------------
(* The sync command in an environment in which every external call         *)
(* succeeds: fresh runs that are not dry runs, over the task lists the     *)
(* data model admits (unique ids, acyclic and resolvable task              *)
(* dependencies, subtask dependencies on siblings only). The action is one *)
(* async function: once started, each of its steps is taken and each call  *)
(* it awaits settles, which is the fairness the specification states.      *)

\* subtask dependencies that refer to subtasks of the same parent
SiblingDepsOnly(ts) ==
    \A k \in DOMAIN ts :
        \A j \in DOMAIN ts[k].subtasks :
            Range(ts[k].subtasks[j].dependencies)
                \subseteq {ts[k].subtasks[i].id : i \in DOMAIN ts[k].subtasks}

LiveInputs ==
    UNION {{ProjectOf(n, g, x, 0) :
               g \in {deps \in [1..n -> TaskDepLists] :
                        LET ts == ProjectOf(n, deps, [k \in 1..n |-> PlainDecoration], 0)
                        IN AllDepsExist(ts) /\ ~HasCycle(ts)},
               x \in [1..n -> {d \in CreatorDecorations :
                                  SiblingDepsOnly(<<TaskOf(1, <<>>, d, 0)>>)}]} :
           n \in 0..MaxTasks}

LiveInit ==
    /\ tasks \in LiveInputs
    /\ pc = "idle"
    /\ disk = Absent
    /\ diskBefore = Absent
    /\ epoch = 0
    /\ RunReset

\* a run that is not a dry run, starts from an empty store and is not
\* stopped by the check of the mapping file
LiveStartRun ==
    /\ StartRun
    /\ ~opts'.dryRun
    /\ ~(opts'.resume /\ disk.present)
    /\ ~MappingBlocks(opts', disk)

\* the workspace is initialised
LiveCheckInit == CheckInit /\ pc' = "checkMapping"

\* the awaited call resolves
LiveSettle == Settle /\ \A k \in DOMAIN log' : log'[k].outcome # "fail"

RunStep ==
    \/ LiveCheckInit
    \/ CheckMapping
    \/ ParseAndSort
    \/ Issue
    \/ LiveSettle
    \/ Advance
    \/ Save

LiveNext ==
    \/ LiveStartRun
    \/ RunStep

\* the steps of the action that end with an await
AwaitedStep ==
    \/ LiveCheckInit
    \/ CheckMapping
    \/ Issue
    \/ LiveSettle
    \/ Advance
    \/ Save

\* the action does not stay in its synchronous parse-and-sort step:
\* ParseAndSort can be taken wherever pc = "parseAndSort" and always changes
\* pc, so this is weak fairness of ParseAndSort
SortReturns == []<>(pc # "parseAndSort")

LiveSpec ==
    LiveInit /\ [][LiveNext]_vars /\ WF_vars(AwaitedStep) /\ SortReturns

----------------------------------------------------------------------------
(* Claims about the sync command *)

\* position of a log entry in the stage sequence, by the function that
\* issued it
StageRank(c) ==
    CASE c.by = "createEpic" -> 1
      [] c.by = "createAllChildren" -> 2
      [] c.by = "createTestChild" -> 3
      [] c.by \in {"wireEpicDependencies", "wireSubtaskDependencies",
                   "wireTestDependencies"} -> 4
      [] c.by \in {"syncEpicStatus", "syncSubtaskStatus"} -> 5
      [] c.by = "mapper.save" -> 6

Prologue == {"idle", "checkInit", "checkMapping", "parseAndSort"}

\* C1: in every run the external calls and the store write occur in the stage
\* sequence: nothing is called before the order is resolved, every createEpic
\* call precedes every subtask createChild call, these precede every
\* verification-item createChild call, these every addDependency call, these
\* every updateStatus/close call, and these the single save, which is last.
C1_StageOrder ==
    /\ log # <<>> => pc \notin Prologue
    /\ \A i, j \in DOMAIN log : i < j => StageRank(log[i]) <= StageRank(log[j])
    /\ \A i \in DOMAIN log : log[i].op = "save" => i = Len(log)
    /\ \A i \in DOMAIN log :
          /\ log[i].op = "createEpic" <=> StageRank(log[i]) = 1
          /\ log[i].op = "createChild" <=> StageRank(log[i]) \in {2, 3}
          /\ log[i].op = "addDependency" <=> StageRank(log[i]) = 4
          /\ log[i].op \in {"updateStatus", "close"} <=> StageRank(log[i]) = 5

\* a completed run that went through every stage with at least one call each
C1_Witness ==
    /\ pc = "done"
    /\ \A r \in 1..6 : \E i \in DOMAIN log : StageRank(log[i]) = r

\* the entity a create call is issued for already has an entry in the
\* store the run loaded
AlreadyInLoadedStore(c) ==
    CASE c.by = "createEpic" -> getEpicId(loaded, c.tm) # Undefined
      [] c.by = "createAllChildren" -> getSubtaskId(loaded, c.tm, c.sub) # Undefined
      [] c.by = "createTestChild" -> getTestIssueId(loaded, c.tm) # Undefined
      [] OTHER -> FALSE

\* C2: a run resumed from the mapping file of a completed run over the same
\* task list issues no createEpic/createChild call for a task, subtask or
\* verification item that already has an entry in the loaded store.
C2_ResumeCreatesNothingKnown ==
    (opts.resume /\ diskBefore.present) =>
        \A i \in DOMAIN log :
            log[i].op \in CreateOps => ~AlreadyInLoadedStore(log[i])

\* C3: once a stage raises an error the run is over with exit status 1, the
\* mapping file has the content it had when the run started, nothing was
\* saved, and nothing runs after the exit but a new invocation.
C3_FailureAbortsUnsaved ==
    /\ [](/\ error # NoErr <=> exitCode = <<1>>
          /\ exitCode = <<1>> =>
                /\ pc = "exited"
                /\ disk = diskBefore
                /\ inFlight = {}
                /\ \A i \in DOMAIN log : log[i].op # "save")
    /\ [][pc = "exited" => pc' = "checkInit" /\ log' = <<>>]_vars

\* a run that fails after it has created entities: the store holds them,
\* the mapping file does not
C3_Witness ==
    /\ exitCode = <<1>>
    /\ mapper # <<>>
    /\ mapper # loaded
    /\ disk = diskBefore
    /\ \E i \in DOMAIN log : log[i].outcome = "ok"

\* C4: a failed external call is the last call of its run: it is not issued
\* again and no other call follows it.
C4_FailedCallIsLast ==
    \A k \in DOMAIN log :
        log[k].outcome = "fail" =>
            /\ k = Len(log)
            /\ pc = "exited"
            /\ error = Err(ExternalCallMsg, k)

\* a call fails after entities have been created: they are left as they are
C4_Witness ==
    /\ Len(log) >= 3
    /\ log[Len(log)].outcome = "fail"
    /\ log[1].outcome = "ok" /\ log[1].op = "createEpic"

\* C5: in a run whose resolver raises a graph error no external call is
\* issued, the mapping file is not written and the run exits with status 1.
C5_GraphErrorBeforeAnyCall ==
    sortResult.err # NoErr =>
        /\ log = <<>>
        /\ disk = diskBefore
        /\ pc = "exited"
        /\ exitCode = <<1>>
        /\ error = sortResult.err

C5_Witness ==
    /\ sortResult.err.msg = CycleMsg
    /\ pc = "exited"
    /\ Len(tasks) = MaxTasks

\* the identifiers a call hands to the external system
IdsPassed(c) ==
    CASE c.op = "createEpic" -> {}
      [] c.op = "createChild" -> {c.id1}
      [] c.op = "addDependency" -> {c.id1, c.id2}
      [] c.op \in {"updateStatus", "close"} -> {c.id1}
      [] OTHER -> {}

ReturnedBefore(k) ==
    {log[j].ret : j \in {i \in 1..(k - 1) :
                            log[i].op \in CreateOps /\ log[i].outcome = "ok"}}

\* a run that starts with an empty store
FreshRun == ~(opts.resume /\ diskBefore.present)

\* C6: in a fresh run every identifier passed as parentId of createChild, as
\* blockedId or blockingId of addDependency, or as the target of
\* updateStatus/close was returned by an earlier successful create call of
\* the same run.
C6_CreateBeforeReference ==
    FreshRun =>
        \A k \in DOMAIN log : IdsPassed(log[k]) \subseteq ReturnedBefore(k)

\* a fresh run, over a mapping file an earlier run left, that has passed
\* identifiers in calls of each kind
C6_Witness ==
    /\ FreshRun
    /\ diskBefore.present
    /\ pc = "done"
    /\ \A o \in {"createChild", "addDependency", "updateStatus", "close"} :
          \E k \in DOMAIN log : log[k].op = o

\* C7: at most one external call is in flight, and a call is issued only
\* after every call before it has completed.
C7_NoOverlap ==
    /\ Cardinality(inFlight) <= 1
    /\ \A k \in DOMAIN log :
          log[k].outcome = "pending" <=> (k = Len(log) /\ inFlight = {k})

\* a call in flight that was issued after others had completed
C7_Witness ==
    /\ inFlight # {}
    /\ Len(log) >= 3
    /\ \A k \in 1..(Len(log) - 1) : log[k].outcome = "ok"

\* C17: when the mapping file exists and neither force nor resume is
\* selected the run exits with status 1 before it parses, sorts or calls
\* anything, and the file stays as it is; otherwise the run starts from the
\* loaded store with resume and an existing file, and from an empty store
\* with force or without a file.
C17_MappingFileGuard ==
    (pc \notin {"idle", "checkInit", "checkMapping"} /\ error.msg # NotInitialisedMsg)
    => IF diskBefore.present /\ ~opts.force /\ ~opts.resume
       THEN /\ pc = "exited"
            /\ exitCode = <<1>>
            /\ error.msg = MappingExistsMsg
            /\ log = <<>>
            /\ sortResult = NoSortResult /\ ordered = <<>>
            /\ disk = diskBefore
       ELSE /\ error.msg # MappingExistsMsg
            /\ loaded = IF opts.resume /\ diskBefore.present
                        THEN loadedTasks(diskBefore) ELSE <<>>

\* a run without force and resume was refused over the file of an earlier
\* run of a task list with dependencies
C17_Witness ==
    /\ pc = "exited"
    /\ diskBefore.present /\ ~opts.force /\ ~opts.resume
    /\ error.msg = MappingExistsMsg
    /\ Len(diskBefore.tasks) = MaxTasks
    /\ disk = diskBefore
    /\ \E k \in DOMAIN tasks : tasks[k].dependencies # <<>>

\* C27: a run in dry-run mode issues no create, addDependency,
\* updateStatus or close call, leaves the store as it was loaded and the
\* mapping file as it found it, and ends after the resolver, with exit
\* code 0 when the order was resolved
C27_DryRunCallsNothing ==
    opts.dryRun =>
        /\ log = <<>>
        /\ inFlight = {}
        /\ nextId = 0
        /\ disk = diskBefore
        /\ mapper = loaded
        /\ pc \in Prologue \cup {"done", "exited"}
        /\ pc = "done" =>
              /\ exitCode = <<0>>
              /\ sortResult.err = NoErr
              /\ Len(ordered) = Len(tasks)
        /\ pc = "exited" =>
              /\ exitCode = <<1>>
              /\ error.msg \in {NotInitialisedMsg, MappingExistsMsg,
                                CycleMsg, MissingMsg}

\* a dry run with resume has ended over a mapping file an earlier run
\* saved, for two tasks with a dependency and subtasks
C27_Witness ==
    /\ opts.dryRun
    /\ opts.resume
    /\ pc = "done"
    /\ diskBefore.present
    /\ mapper # <<>>
    /\ Len(ordered) = 2
    /\ \E k \in DOMAIN ordered :
          ordered[k].dependencies # <<>> /\ ordered[k].subtasks # <<>>

----------------------------------------------------------------------------
(* Claims about the IdMapper *)

RegisteredIds(m) == {m[k].tmId : k \in DOMAIN m}

\* what every lookup and the summary counts return on a store
Lookups(m) ==
    [epic |-> [t \in StoreIds |-> getEpicId(m, t)],
     child |-> [t \in StoreIds |-> [c \in StoreIds |-> getSubtaskId(m, t, c)]],
     test |-> [t \in StoreIds |-> getTestIssueId(m, t)],
     stats |-> getStats(m)]

C14_NoParentFailsUnchanged ==
    (/\ pc = "store" /\ log # <<>>
     /\ log[1].op \in {"addSubtask", "setTestIssueId"}
     /\ getEpicId(log[1].before, log[1].p) = Undefined)
    => /\ error = Err(NotInMappingMsg, log[1].p)
       /\ mapper = log[1].before
       /\ Lookups(mapper) = Lookups(log[1].before)

\* addSubtask failed on a store that holds another parent with a child
C14_Witness ==
    /\ pc = "store" /\ log # <<>> /\ log[1].op = "addSubtask"
    /\ getEpicId(log[1].before, log[1].p) = Undefined
    /\ getStats(log[1].before).childCount > 0
    /\ error = Err(NotInMappingMsg, log[1].p)

C16_CorruptFileFailsAtLoad ==
    /\ (/\ log # <<>> /\ log[1].op = "load"
        /\ (~disk.present \/ ~JsonParses(disk) \/ "tasks" \notin DOMAIN disk))
       => error # NoErr
    /\ pc # "storeFailed"

\* the last operation was a register operation that succeeded
Registered(op) ==
    pc = "store" /\ log # <<>> /\ log[1].op = op /\ error = NoErr

\* the lookups for parent t return on store a what they return on store b
SameLookupsFor(t, a, b) ==
    /\ getEpicId(a, t) = getEpicId(b, t)
    /\ getTestIssueId(a, t) = getTestIssueId(b, t)
    /\ \A c \in StoreIds : getSubtaskId(a, t, c) = getSubtaskId(b, t, c)

\* what the register operations leave alone: addSubtask(p, c, y) every
\* lookup but that of (p, c), addEpic and setTestIssueId every child
\* lookup; an empty store has no child mapping
ChildLookupsScoped ==
    /\ Registered("addSubtask") =>
          /\ \A t \in StoreIds \ {log[1].p} :
                SameLookupsFor(t, mapper, log[1].before)
          /\ \A c \in StoreIds \ {log[1].c} :
                getSubtaskId(mapper, log[1].p, c)
                    = getSubtaskId(log[1].before, log[1].p, c)
          /\ getEpicId(mapper, log[1].p) = getEpicId(log[1].before, log[1].p)
    /\ (Registered("addEpic") \/ Registered("setTestIssueId")) =>
          \A t, c \in StoreIds :
              getSubtaskId(mapper, t, c) = getSubtaskId(log[1].before, t, c)
    /\ mapper = <<>> =>
          \A t, c \in StoreIds : getSubtaskId(mapper, t, c) = Undefined

LookupsKept(a, b) ==
    /\ \A t \in StoreIds :
          getEpicId(a, t) # Undefined => getEpicId(b, t) = getEpicId(a, t)
    /\ \A p, c \in StoreIds :
          getSubtaskId(a, p, c) # Undefined =>
              getSubtaskId(b, p, c) = getSubtaskId(a, p, c)

\* the step applies an operation to the store instance: a register
\* operation or save (load builds another instance from the file)
OnSameInstance ==
    pc' = "store" /\ log' # <<>> /\ log'[1].op # "load" /\ log' # log

\* C33: once getEpicId(t) has returned an id it returns that id after
\* every later register operation and save on the store, and so does
\* getSubtaskId(p, c): no operation on a store changes a top-level or
\* child mapping the store holds
C33_EntriesNeverChange ==
    [][/\ OnSameInstance => LookupsKept(mapper, mapper')
       /\ mapper' # mapper => (log' # <<>> /\ log' # log)]_vars

\* a source id that had a top-level mapping and a child was registered
\* again under another target id, and a pair that had a child mapping was
\* registered again, and the lookups return the ids registered first
C33_Witness ==
    /\ Registered("addSubtask")
    /\ getSubtaskId(log[1].before, log[1].p, log[1].c) # Undefined
    /\ getSubtaskId(log[1].before, log[1].p, log[1].c) # log[1].y
    /\ getSubtaskId(mapper, log[1].p, log[1].c)
          = getSubtaskId(log[1].before, log[1].p, log[1].c)
    /\ Cardinality({k \in DOMAIN mapper : mapper[k].tmId = log[1].p}) = 2
    /\ mapper[1].beadsId # mapper[2].beadsId
    /\ getEpicId(mapper, log[1].p) = mapper[1].beadsId

----------------------------------------------------------------------------
(* Claims about the dependency wirer *)

\* the <<blockedId, blockingId>> pairs of the calls a pass has issued, in order
PairsIssuedBy(pass) ==
    LET ByPass(c) == c.by = pass
        calls == SelectSeq(log, ByPass)
    IN [k \in DOMAIN calls |-> <<calls[k].id1, calls[k].id2>>]

IsPrefix(a, b) == Len(a) <= Len(b) /\ SubSeq(b, 1, Len(a)) = a

AllSettledOk == \A k \in DOMAIN log : log[k].outcome = "ok"

\* the pairs, in order, that the dependency lists of the tasks ask for
RECURSIVE EpicPairs(_, _, _)
EpicPairs(ts, m, k) ==
    IF k = 0 THEN <<>>
    ELSE EpicPairs(ts, m, k - 1) \o
         [j \in DOMAIN ts[k].dependencies |->
             <<getEpicId(m, ts[k].id), getEpicId(m, ts[k].dependencies[j])>>]

\* every id the top-level pass looks up has a top-level mapping
AllEpicIdsResolve(ts, m) ==
    \A k \in DOMAIN ts :
        ts[k].dependencies # <<>> =>
            /\ getEpicId(m, ts[k].id) # Undefined
            /\ \A d \in Range(ts[k].dependencies) : getEpicId(m, d) # Undefined

\* every id the child pass looks up has a child mapping under the parent
AllSubtaskIdsResolve(ts, m) ==
    \A k \in DOMAIN ts : \A j \in DOMAIN ts[k].subtasks :
        LET sub == ts[k].subtasks[j]
        IN sub.dependencies # <<>> =>
              /\ getSubtaskId(m, ts[k].id, sub.id) # Undefined
              /\ \A d \in Range(sub.dependencies) :
                    getSubtaskId(m, ts[k].id, d) # Undefined

\* wireEpicDependencies has returned to wireAllDependencies
EpicPassReturned ==
    \/ pc \in {"wireSub", "wireTest", "sync"}
    \/ /\ pc = "exited"
       /\ error.msg \in {BlockedSubtaskMsg, BlockingSubtaskMsg, SubtaskIdNotFoundMsg}
    \/ /\ pc = "exited" /\ error.msg = ExternalCallMsg
       /\ log[Len(log)].by # "wireEpicDependencies"

\* wireSubtaskDependencies has returned to wireAllDependencies
SubtaskPassReturned ==
    \/ pc \in {"wireTest", "sync"}
    \/ pc = "exited" /\ error.msg = SubtaskIdNotFoundMsg
    \/ /\ pc = "exited" /\ error.msg = ExternalCallMsg
       /\ log[Len(log)].by = "wireTestDependencies"

\* C18: when every id resolves, wireEpicDependencies issues, task by task
\* and entry by entry of the dependency list, exactly one
\* addDependency(target id of the task, target id of the dependency), and
\* no call for a task with an empty dependency list.
C18_EpicWiringExact ==
    AllEpicIdsResolve(ordered, mapper) =>
        LET issued == PairsIssuedBy("wireEpicDependencies")
            wanted == EpicPairs(ordered, mapper, Len(ordered))
        IN /\ IsPrefix(issued, wanted)
           /\ EpicPassReturned => issued = wanted
           /\ \A k \in DOMAIN log :
                 log[k].by = "wireEpicDependencies" =>
                    \E j \in DOMAIN ordered :
                        /\ ordered[j].id = log[k].tm
                        /\ ordered[j].dependencies # <<>>

\* all three passes returned; the top-level pass had wired two full
\* dependency lists, one of them naming the same dependency twice, to two
\* different blocking ids
C18_Witness ==
    /\ pc = "sync"
    /\ AllEpicIdsResolve(ordered, mapper)
    /\ Len(ordered) = MaxTasks
    /\ Len(PairsIssuedBy("wireEpicDependencies")) = 2 * MaxDeps
    /\ \E k \in DOMAIN ordered :
          /\ Len(ordered[k].dependencies) = MaxDeps
          /\ \A j \in DOMAIN ordered[k].dependencies :
                ordered[k].dependencies[j] = ordered[k].dependencies[1]
    /\ \E a, b \in DOMAIN log : a < b /\ log[a].by = "wireEpicDependencies"
                                /\ log[b].by = "wireEpicDependencies"
                                /\ log[a].id2 # log[b].id2

\* C19: in the top-level and the child pass an id without a mapping ends
\* the pass with an error that names the side and the source id; no
\* addDependency call is made for a pair with such an id, and none after
\* the error.
C19_UnresolvedIdIsFatal ==
    /\ (pc = "exited" /\ error.msg = BlockedTaskMsg) =>
          /\ getEpicId(mapper, error.id) = Undefined
          /\ \E k \in DOMAIN ordered :
                ordered[k].id = error.id /\ ordered[k].dependencies # <<>>
    /\ (pc = "exited" /\ error.msg = BlockingTaskMsg) =>
          /\ getEpicId(mapper, error.id) = Undefined
          /\ \E k \in DOMAIN ordered :
                ordered[k].id = error.of /\ error.id \in Range(ordered[k].dependencies)
    /\ (pc = "exited" /\ error.msg = BlockedSubtaskMsg) =>
          /\ getSubtaskId(mapper, error.of, error.id) = Undefined
          /\ \E k \in DOMAIN ordered : \E j \in DOMAIN ordered[k].subtasks :
                /\ ordered[k].id = error.of
                /\ ordered[k].subtasks[j].id = error.id
                /\ ordered[k].subtasks[j].dependencies # <<>>
    /\ (pc = "exited" /\ error.msg = BlockingSubtaskMsg) =>
          /\ getSubtaskId(mapper, error.of, error.id) = Undefined
          /\ \E k \in DOMAIN ordered : \E j \in DOMAIN ordered[k].subtasks :
                /\ ordered[k].id = error.of
                /\ error.id \in Range(ordered[k].subtasks[j].dependencies)
    /\ \A k \in DOMAIN log :
          log[k].by \in {"wireEpicDependencies", "wireSubtaskDependencies"} =>
              log[k].id1 # Undefined /\ log[k].id2 # Undefined
    /\ EpicPassReturned => AllEpicIdsResolve(ordered, mapper)
    /\ SubtaskPassReturned => AllSubtaskIdsResolve(ordered, mapper)
    /\ pc = "exited" => inFlight = {} /\ ~ENABLED WireNext

\* the child pass stopped at a blocking sibling without a mapping, after
\* the top-level pass had made its calls
C19_Witness ==
    /\ pc = "exited"
    /\ error.msg = BlockingSubtaskMsg
    /\ PairsIssuedBy("wireEpicDependencies") # <<>>
    /\ AllSettledOk
    /\ getSubtaskId(mapper, error.of, error.id) = Undefined
    /\ getEpicId(mapper, error.of) # Undefined

\* the child entries the store holds under the top-level entry of task t
ChildMappings(m, t) ==
    IF findTask(m, t) = 0 THEN {} ELSE Range(m[findTask(m, t)].subtasks)

\* wireTestDependencies is over: it returned, or it threw its own error
TestPassOver ==
    \/ pc = "sync"
    \/ pc = "exited" /\ error.msg = SubtaskIdNotFoundMsg

\* the pairs, in order, that the subtask lists of the tasks with a test
\* issue ask for
RECURSIVE TestPairs(_, _, _)
TestPairs(ts, m, k) ==
    IF k = 0 THEN <<>>
    ELSE TestPairs(ts, m, k - 1) \o
         (IF getTestIssueId(m, ts[k].id) = Undefined THEN <<>>
          ELSE [j \in DOMAIN ts[k].subtasks |->
                   <<getTestIssueId(m, ts[k].id),
                     getSubtaskId(m, ts[k].id, ts[k].subtasks[j].id)>>])

\* every subtask of a task with a test issue has a child mapping
AllTestedSubtasksResolve(ts, m) ==
    \A k \in DOMAIN ts :
        getTestIssueId(m, ts[k].id) # Undefined =>
            \A j \in DOMAIN ts[k].subtasks :
                getSubtaskId(m, ts[k].id, ts[k].subtasks[j].id) # Undefined

\* the calls wireTestDependencies has made and seen completed
TestCallsDone ==
    Cardinality({k \in DOMAIN log : /\ log[k].by = "wireTestDependencies"
                                    /\ log[k].outcome = "ok"})

TestPassTouched(t) ==
    \/ \E k \in DOMAIN log :
          log[k].by = "wireTestDependencies" /\ log[k].tm = t
    \/ pc = "exited" /\ error.msg = SubtaskIdNotFoundMsg /\ error.of = t

\* the verification pass stands at task k and is about to step over it
TestPassStepsOver(k) ==
    (pc = "wireTest" /\ ti = k /\ inFlight = {}) =>
        wireTestDependenciesStep(ordered, mapper, ti, si) = MoveStep(k + 1, 1, 1)

----------------------------------------------------------------------------
(* Claims about the status reconciler *)

\* the action the claim names for a status string
ExpectedAction(tmStatus) ==
    CASE tmStatus = "in-progress" -> [op |-> "updateStatus", status |-> "in_progress"]
      [] tmStatus = "done" -> [op |-> "close", status |-> ""]
      [] tmStatus = "deferred" -> [op |-> "updateStatus", status |-> "deferred"]
      [] OTHER -> [op |-> "none", status |-> ""]

\* the calls the reconciler has issued for the entity (task t, subtask s),
\* s = 0 for the top-level entity
StatusCallsFor(t, s) ==
    {k \in DOMAIN log : /\ log[k].by \in {"syncEpicStatus", "syncSubtaskStatus"}
                        /\ log[k].tm = t /\ log[k].sub = s}

\* the calls for an entity of status tmStatus and target id issueId are
\* what the claim names: none, or one call of the expected kind
StatusCallsAsExpected(t, s, tmStatus, issueId) ==
    /\ Cardinality(StatusCallsFor(t, s)) <= 1
    /\ ExpectedAction(tmStatus).op = "none" => StatusCallsFor(t, s) = {}
    /\ \A k \in StatusCallsFor(t, s) :
          /\ log[k].op = ExpectedAction(tmStatus).op
          /\ log[k].status = ExpectedAction(tmStatus).status
          /\ log[k].id1 = issueId

\* syncAllStatuses is past the entity at position (k, s) of its loops
StatusPassedEntity(k, s) ==
    \/ pc # "sync" /\ error = NoErr
    \/ pc = "sync" /\ (ti > k \/ (ti = k /\ si > s + 1))

\* C22: mapStatus gives every string a result (pending: no action,
\* in-progress: status in_progress, done: close, deferred: status deferred,
\* any other string: no action) and the reconciler never throws because of
\* a status; for one entity it issues at most one call, close for done,
\* updateStatus for in-progress and deferred, and no call otherwise
C22_StatusMapping ==
    /\ \A x \in StatusStrings :
          /\ mapStatus(x).close = (ExpectedAction(x).op = "close")
          /\ mapStatus(x).status = ExpectedAction(x).status
          /\ mapStatus(x).close => mapStatus(x).status = ""
    /\ \A k \in DOMAIN ordered :
          LET task == ordered[k]
          IN /\ StatusCallsAsExpected(task.id, 0, task.status,
                                      getEpicId(mapper, task.id))
             /\ (StatusPassedEntity(k, 0) /\ ExpectedAction(task.status).op # "none")
                    => StatusCallsFor(task.id, 0) # {}
             /\ \A j \in DOMAIN task.subtasks :
                   LET sub == task.subtasks[j]
                       issueId == getSubtaskId(mapper, task.id, sub.id)
                   IN /\ StatusCallsAsExpected(task.id, sub.id, sub.status, issueId)
                      /\ (/\ StatusPassedEntity(k, j)
                          /\ issueId # Undefined
                          /\ ExpectedAction(sub.status).op # "none")
                             => StatusCallsFor(task.id, sub.id) # {}
    /\ pc = "exited" =>
          \/ error.msg = ExternalCallMsg
          \/ error.msg = NoBeadsEpicMsg /\ getEpicId(mapper, error.id) = Undefined

\* syncAllStatuses returned after it closed one entity, updated the status
\* of another and made no call for a top-level entity whose status string
\* is outside the four statuses
C22_Witness ==
    /\ pc = "save"
    /\ \E a, b \in DOMAIN log : log[a].op = "close" /\ log[b].op = "updateStatus"
                                /\ log[b].status = "deferred"
    /\ \E k \in DOMAIN ordered :
          /\ ordered[k].status \notin {"pending", "in-progress", "done", "deferred"}
          /\ getEpicId(mapper, ordered[k].id) # Undefined
          /\ StatusCallsFor(ordered[k].id, 0) = {}

\* the rank of a wiring pass in wireAllDependencies
WirePassRank(by) ==
    CASE by = "wireEpicDependencies" -> 1
      [] by = "wireSubtaskDependencies" -> 2
      [] by = "wireTestDependencies" -> 3

\* the kinds of target ids the stores hold
IsTopLevelId(id) == id # Undefined /\ id[1] = 0
IsChildId(id) == id # Undefined /\ id[1] > 0 /\ id[2] > 0
IsTestIssueId(id) == id # Undefined /\ id[1] > 0 /\ id[2] = 0

\* the pass in which wireAllDependencies failed
FailedPass ==
    CASE error.msg \in {BlockedTaskMsg, BlockingTaskMsg} -> 1
      [] error.msg \in {BlockedSubtaskMsg, BlockingSubtaskMsg} -> 2
      [] error.msg = SubtaskIdNotFoundMsg -> 3
      [] error.msg = ExternalCallMsg -> WirePassRank(log[Len(log)].by)

\* C29: the addDependency calls of wireAllDependencies come pass by pass,
\* first those between top-level entities, then those between children,
\* then those from a verification item to a child, and after a failure in
\* one pass no call of a later pass is issued
C29_WiringPassOrder ==
    /\ \A i, j \in DOMAIN log :
          i < j => WirePassRank(log[i].by) <= WirePassRank(log[j].by)
    /\ \A i \in DOMAIN log :
          /\ log[i].op = "addDependency"
          /\ WirePassRank(log[i].by) = 1 =>
                IsTopLevelId(log[i].id1) /\ IsTopLevelId(log[i].id2)
          /\ WirePassRank(log[i].by) = 2 =>
                IsChildId(log[i].id1) /\ IsChildId(log[i].id2)
          /\ WirePassRank(log[i].by) = 3 =>
                IsTestIssueId(log[i].id1) /\ IsChildId(log[i].id2)
    /\ pc = "wireEpic" => \A i \in DOMAIN log : WirePassRank(log[i].by) = 1
    /\ pc = "wireSub" => \A i \in DOMAIN log : WirePassRank(log[i].by) <= 2
    /\ pc = "exited" =>
          /\ \A i \in DOMAIN log : WirePassRank(log[i].by) <= FailedPass
          /\ error.msg = ExternalCallMsg => log[Len(log)].outcome = "fail"
          /\ inFlight = {}
          /\ ~ENABLED WireNext

\* a call of the child pass failed after the top-level pass had made its
\* calls, and the verification pass, which had a verification item and
\* children to wire, made none
C29_Witness ==
    /\ pc = "exited"
    /\ error.msg = ExternalCallMsg
    /\ log[Len(log)].by = "wireSubtaskDependencies"
    /\ PairsIssuedBy("wireEpicDependencies") # <<>>
    /\ PairsIssuedBy("wireTestDependencies") = <<>>
    /\ AllTestedSubtasksResolve(ordered, mapper)
    /\ \E k \in DOMAIN ordered :
          /\ getTestIssueId(mapper, ordered[k].id) # Undefined
          /\ ordered[k].subtasks # <<>>

\* the child entries registered under task t for subtask id s
SiblingsFor(m, t, s) == {e \in ChildMappings(m, t) : e.tmId = s}

\* the tasks other than t under which a child of subtask id s is registered
OtherParentsOf(m, t, s) ==
    {m[k].tmId : k \in {i \in DOMAIN m : m[i].tmId # t
                                         /\ \E e \in Range(m[i].subtasks) : e.tmId = s}}

\* C30: every addDependency call of wireSubtaskDependencies links the
\* child registered under the task for the subtask to the child registered
\* under the same task for one of its dependency ids, and a dependency id
\* without a child registered under the task makes the pass throw, naming
\* the id and the task, whatever is registered under other tasks
C30_ChildWiringScoped ==
    /\ \A j \in DOMAIN log :
          log[j].by = "wireSubtaskDependencies" =>
              /\ \E e \in SiblingsFor(mapper, log[j].tm, log[j].sub) :
                    e.beadsId = log[j].id1
              /\ \E k \in DOMAIN ordered : \E i \in DOMAIN ordered[k].subtasks :
                    /\ ordered[k].id = log[j].tm
                    /\ ordered[k].subtasks[i].id = log[j].sub
                    /\ \E dep \in Range(ordered[k].subtasks[i].dependencies) :
                          \E e \in SiblingsFor(mapper, log[j].tm, dep) :
                              e.beadsId = log[j].id2
    /\ (/\ pc = "wireSub" /\ inFlight = {}
        /\ ti <= Len(ordered)
        /\ si <= Len(ordered[ti].subtasks)
        /\ di <= Len(ordered[ti].subtasks[si].dependencies)) =>
          LET task == ordered[ti]
              subtask == task.subtasks[si]
              dep == subtask.dependencies[di]
          IN (/\ SiblingsFor(mapper, task.id, subtask.id) # {}
              /\ SiblingsFor(mapper, task.id, dep) = {}) =>
                 wireSubtaskDependenciesStep(ordered, mapper, ti, si, di)
                     = ThrowStep(ErrOf(BlockingSubtaskMsg, dep, task.id))
    /\ (pc = "exited" /\ error.msg \in {BlockedSubtaskMsg, BlockingSubtaskMsg}) =>
          SiblingsFor(mapper, error.of, error.id) = {}

\* the child pass threw at a dependency id that has no child under the
\* task of the subtask while a child of that id is registered under
\* another task
C30_Witness ==
    /\ pc = "exited"
    /\ error.msg = BlockingSubtaskMsg
    /\ SiblingsFor(mapper, error.of, error.id) = {}
    /\ OtherParentsOf(mapper, error.of, error.id) # {}
    /\ getEpicId(mapper, error.of) # Undefined

----------------------------------------------------------------------------
(* Claims about the entity creators *)

\* the subtask ids of the createChild calls createAllChildren issued for
\* task t, in call order
ChildCallsFor(t) ==
    LET ForTask(c) == c.by = "createAllChildren" /\ c.tm = t
        calls == SelectSeq(log, ForTask)
    IN [k \in DOMAIN calls |-> calls[k].sub]

StrictlyAscending(ids) == \A i, j \in DOMAIN ids : i < j => ids[i] < ids[j]

\* the elements of ids, each as often as it occurs
BagOfIds(ids) == [x \in Range(ids) |-> Cardinality({k \in DOMAIN ids : ids[k] = x})]

\* createAllChildren has returned
ChildrenCreated ==
    \/ pc \in {"createTests", "wireEpic", "wireSub", "wireTest", "sync", "save"}
    \/ pc = "done" /\ ~opts.dryRun

\* C23: for each task the child creator issues one createChild call per
\* subtask, in strictly ascending subtask id order whatever the order of
\* the subtask list, and each returned id is registered under (parent id,
\* subtask id) before the next call is issued
C23_ChildrenAscending ==
    /\ \A k \in DOMAIN ordered :
          LET issued == ChildCallsFor(ordered[k].id)
              given == [j \in DOMAIN ordered[k].subtasks |->
                            ordered[k].subtasks[j].id]
          IN /\ StrictlyAscending(issued)
             /\ Range(issued) \subseteq Range(given)
             /\ ChildrenCreated =>
                   /\ Len(issued) = Len(given)
                   /\ BagOfIds(issued) = BagOfIds(given)
    /\ \A j \in DOMAIN log :
          log[j].by = "createAllChildren" =>
              /\ j < Len(log) => log[j].outcome = "ok"
              /\ log[j].outcome = "ok" =>
                    \E e \in ChildMappings(mapper, log[j].tm) :
                        e.tmId = log[j].sub /\ e.beadsId = log[j].ret
              /\ log[j].outcome # "ok" =>
                    \A e \in ChildMappings(mapper, log[j].tm) :
                        FreshRun => e.tmId # log[j].sub

\* a completed run created the two children of a task whose subtask list
\* gives them in descending id order
C23_Witness ==
    /\ pc = "done"
    /\ \E k \in DOMAIN ordered :
          /\ Len(ordered[k].subtasks) = 2
          /\ ordered[k].subtasks[1].id > ordered[k].subtasks[2].id
          /\ ChildCallsFor(ordered[k].id) = <<1, 2>>

\* the position of task id t in the order, 0 when it is not there
PositionOf(t) ==
    IF \E k \in DOMAIN ordered : ordered[k].id = t
    THEN CHOOSE k \in DOMAIN ordered : ordered[k].id = t
    ELSE 0

\* the calls of creator by for the task at position k or for a later task
CallsFrom(by, k) ==
    {j \in DOMAIN log : log[j].by = by /\ PositionOf(log[j].tm) >= k}

\* C24: a creator that reaches a parent without a top-level mapping throws
\* an error that names the task id, the child creator for every task and
\* the verification-item creator for every task with a test strategy; no
\* createChild call is issued for that task or for a task after it in the
\* order, and none is ever issued without the parent's target id
C24_MissingParentIsFatal ==
    /\ (/\ pc \in CreatorStages /\ inFlight = {} /\ ti <= Len(ordered)
        /\ getEpicId(mapper, ordered[ti].id) = Undefined) =>
          LET st == StageStep(pc, ordered, mapper, ti, si, di)
          IN /\ pc = "createChildren" =>
                   st = ThrowStep(Err(NoEpicMappingMsg, ordered[ti].id))
             /\ (pc = "createTests" /\ Truthy(ordered[ti].testStrategy)) =>
                   st = ThrowStep(Err(EpicIdNotFoundMsg, ordered[ti].id))
    /\ (pc = "exited" /\ error.msg = NoEpicMappingMsg) =>
          /\ PositionOf(error.id) > 0
          /\ getEpicId(mapper, error.id) = Undefined
          /\ CallsFrom("createAllChildren", PositionOf(error.id)) = {}
          /\ CallsFrom("createTestChild", 1) = {}
    /\ (pc = "exited" /\ error.msg = EpicIdNotFoundMsg) =>
          /\ PositionOf(error.id) > 0
          /\ getEpicId(mapper, error.id) = Undefined
          /\ Truthy(ordered[PositionOf(error.id)].testStrategy)
          /\ CallsFrom("createTestChild", PositionOf(error.id)) = {}
    /\ \A j \in DOMAIN log :
          log[j].op = "createChild" =>
              log[j].id1 # Undefined /\ log[j].id1 = getEpicId(mapper, log[j].tm)
    /\ pc = "exited" => inFlight = {} /\ ~ENABLED CreatorNext

\* the child creator threw at the second task, which has no top-level
\* mapping, after it had created the children of the first
C24_Witness ==
    /\ pc = "exited"
    /\ error.msg = NoEpicMappingMsg
    /\ PositionOf(error.id) = 2
    /\ ordered[2].subtasks # <<>>
    /\ CallsFrom("createAllChildren", 1) # {}
    /\ AllSettledOk

\* the calls the verification-item creator issued for task t
TestCallsFor(t) ==
    {j \in DOMAIN log : log[j].by = "createTestChild" /\ log[j].tm = t}

\* createAllTestChildren has returned, or was not called because no task
\* has a test strategy
TestsCreated == pc = "wireEpic"

\* C25: the verification-item creator issues one createChild call, under
\* the parent's target id, for each task with a non-empty test strategy
\* and registers the returned id as the task's verification-item mapping;
\* for a task whose test strategy is absent or empty it makes no call,
\* registers nothing and throws no error
C25_TestChildPerStrategy ==
    \A k \in DOMAIN ordered :
        LET task == ordered[k]
            calls == TestCallsFor(task.id)
        IN IF Truthy(task.testStrategy)
           THEN /\ Cardinality(calls) <= 1
                /\ TestsCreated => Cardinality(calls) = 1
                /\ \A j \in calls :
                      /\ log[j].op = "createChild"
                      /\ log[j].id1 = getEpicId(mapper, task.id)
                      /\ log[j].outcome = "ok" =>
                            getTestIssueId(mapper, task.id) = log[j].ret
                      /\ log[j].outcome # "ok" =>
                            getTestIssueId(mapper, task.id) = Undefined
                /\ calls = {} => getTestIssueId(mapper, task.id) = Undefined
           ELSE /\ calls = {}
                /\ getTestIssueId(mapper, task.id) = Undefined
                /\ ~(pc = "exited" /\ error.msg = EpicIdNotFoundMsg
                                   /\ error.id = task.id)
                /\ (pc = "createTests" /\ ti = k /\ inFlight = {}) =>
                      createAllTestChildrenStep(ordered, mapper, ti)
                          = MoveStep(k + 1, 1, 1)

\* the verification-item creator returned after it stepped over a first
\* task whose test strategy is the empty string and which has no top-level
\* mapping, and created and registered the verification item of the second
C25_Witness ==
    /\ TestsCreated
    /\ Len(ordered) = 2
    /\ ordered[1].testStrategy = <<"">>
    /\ getEpicId(mapper, ordered[1].id) = Undefined
    /\ ordered[1].subtasks = <<>>
    /\ Cardinality(TestCallsFor(ordered[2].id)) = 1
    /\ getTestIssueId(mapper, ordered[2].id) # Undefined

----------------------------------------------------------------------------
(* Claims about a run over the three-task chain *)

\* the calls of operation op, in call order
CallsOf(op) == LET IsOp(c) == c.op = op IN SelectSeq(log, IsOp)

\* the target id the createEpic call of this run returned for task t
CreatedIdOf(t) ==
    LET made == CallsOf("createEpic")
    IN made[CHOOSE k \in DOMAIN made : made[k].tm = t].ret

\* the stages that create and wire have returned
CreatedAndWired == pc \in {"sync", "save"} \/ (pc = "done" /\ ~opts.dryRun)

\* C26: a fresh run over the three-task chain issues the top-level
\* creations of tasks 1, 2, 3 in this order, then addDependency(2 by 1),
\* (3 by 1), (3 by 2) on the ids these creations returned, exactly these
\* once the wiring has returned, and never a createChild call
C26_ThreeTaskChain ==
    FreshRun =>
        LET made == CallsOf("createEpic")
            wired == CallsOf("addDependency")
        IN /\ IsPrefix([k \in DOMAIN made |-> made[k].tm], <<1, 2, 3>>)
           /\ CallsOf("createChild") = <<>>
           /\ wired # <<>> =>
                 /\ Len(made) = 3
                 /\ IsPrefix([k \in DOMAIN wired |-> <<wired[k].id1, wired[k].id2>>],
                             << <<CreatedIdOf(2), CreatedIdOf(1)>>,
                                <<CreatedIdOf(3), CreatedIdOf(1)>>,
                                <<CreatedIdOf(3), CreatedIdOf(2)>> >>)
           /\ CreatedAndWired => Len(made) = 3 /\ Len(wired) = 3

\* a fresh run over the chain given in the order 3, 2, 1 has completed
\* with three creations and three wiring calls
C26_Witness ==
    /\ FreshRun
    /\ pc = "done"
    /\ ~opts.dryRun
    /\ [k \in DOMAIN tasks |-> tasks[k].id] = <<3, 2, 1>>
    /\ Len(CallsOf("createEpic")) = 3
    /\ Len(CallsOf("addDependency")) = 3
    /\ AllSettledOk

----------------------------------------------------------------------------
(* Claims about the progress callbacks *)

\* the invocations of the progress callback of a stage, in order
ProgressOf(stage) ==
    LET OfStage(p) == p.stage = stage IN SelectSeq(progress, OfStage)

\* the creation calls a stage has issued
CreationsOf(stage) ==
    LET by == CASE stage = "createEpics" -> "createEpic"
                [] stage = "createChildren" -> "createAllChildren"
                [] stage = "createTests" -> "createTestChild"
    IN {j \in DOMAIN log : log[j].by = by}

\* the action is past the stage, which returned
StageReturned(stage) ==
    LET At(s) == CHOOSE k \in DOMAIN StageOrder : StageOrder[k] = s
    IN \/ pc \in Range(StageOrder) /\ At(pc) > At(stage)
       \/ pc = "done" /\ ~opts.dryRun

\* C28: the progress callback of a creation stage has been invoked once
\* for each creation that succeeded, so after it and before the next
\* creation call; its k-th invocation reports the count k; every
\* invocation of the stage reports the same total, and when the stage has
\* returned the total is the number of creations the stage performed
C28_ProgressSequence ==
    \A stage \in ProgressStages :
        LET reported == ProgressOf(stage)
            succeeded == {j \in CreationsOf(stage) : log[j].outcome = "ok"}
        IN /\ Len(reported) = Cardinality(succeeded)
           /\ \A k \in DOMAIN reported :
                 /\ reported[k].current = k
                 /\ reported[k].total = reported[1].total
                 /\ reported[k].total >= k
           /\ \A j \in succeeded :
                 LET c == log[j]
                 IN \/ c.by = "createEpic" /\ findTask(mapper, c.tm) # 0
                    \/ /\ c.by = "createAllChildren"
                       /\ \E e \in ChildMappings(mapper, c.tm) :
                             e.tmId = c.sub /\ e.beadsId = c.ret
                    \/ /\ c.by = "createTestChild"
                       /\ getTestIssueId(mapper, c.tm) = c.ret
           /\ StageReturned(stage) =>
                 /\ Cardinality(CreationsOf(stage)) = Len(reported)
                 /\ \A k \in DOMAIN reported :
                       reported[k].total = Cardinality(CreationsOf(stage))

\* a run has completed in which the three creation stages reported
\* progress, the child creator up to (2, 2) for a single task
C28_Witness ==
    /\ pc = "done"
    /\ Len(ordered) = 1
    /\ ProgressOf("createEpics") = <<[stage |-> "createEpics", current |-> 1, total |-> 1]>>
    /\ Len(ProgressOf("createChildren")) = 2
    /\ ProgressOf("createChildren")[2].total = 2
    /\ Len(ProgressOf("createTests")) = 1

----------------------------------------------------------------------------
(* Claims about the traversal of the status reconciler *)

\* the calls the reconciler issued for task t or one of its subtasks
StatusCallsOfTask(t) ==
    {k \in DOMAIN log : /\ log[k].by \in {"syncEpicStatus", "syncSubtaskStatus"}
                        /\ log[k].tm = t}

\* the position of subtask id s in the subtask list of the task at k
SubtaskPositionOf(k, s) ==
    IF s = 0 THEN 0
    ELSE CHOOSE j \in DOMAIN ordered[k].subtasks : ordered[k].subtasks[j].id = s

\* C32: syncAllStatuses throws `No beads epic found`, naming the task, at
\* a task without a top-level mapping, whatever its status, and makes no
\* call for that task, its subtasks or a later task; a subtask without a
\* child mapping gets no call and no error and the loop goes on; calls come
\* task by task, the call for the task before those for its subtasks; when
\* the pass has returned every task and every mapped subtask whose status
\* asks for an action has had its call
C32_StatusTraversal ==
    /\ (/\ pc = "sync" /\ inFlight = {} /\ ti <= Len(ordered) /\ si = 1
        /\ findTask(mapper, ordered[ti].id) = 0) =>
          syncAllStatusesStep(ordered, mapper, ti, si)
              = ThrowStep(Err(NoBeadsEpicMsg, ordered[ti].id))
    /\ (pc = "exited" /\ error.msg = NoBeadsEpicMsg) =>
          /\ PositionOf(error.id) > 0
          /\ findTask(mapper, error.id) = 0
          /\ \A k \in DOMAIN ordered :
                k >= PositionOf(error.id) => StatusCallsOfTask(ordered[k].id) = {}
          /\ ~ENABLED StatusNext
    /\ \A k \in DOMAIN ordered : \A j \in DOMAIN ordered[k].subtasks :
          SiblingsFor(mapper, ordered[k].id, ordered[k].subtasks[j].id) = {} =>
              /\ StatusCallsFor(ordered[k].id, ordered[k].subtasks[j].id) = {}
              /\ (pc = "sync" /\ inFlight = {} /\ ti = k /\ si = j + 1) =>
                    syncAllStatusesStep(ordered, mapper, ti, si)
                        = MoveStep(k, j + 2, 1)
    /\ \A a, b \in DOMAIN log :
          a < b =>
              LET ka == PositionOf(log[a].tm)
                  kb == PositionOf(log[b].tm)
              IN /\ ka <= kb
                 /\ ka = kb => SubtaskPositionOf(ka, log[a].sub)
                                  < SubtaskPositionOf(kb, log[b].sub)
    /\ pc = "save" =>
          \A k \in DOMAIN ordered :
              LET task == ordered[k]
              IN /\ findTask(mapper, task.id) # 0
                 /\ ExpectedAction(task.status).op # "none" =>
                       Cardinality(StatusCallsFor(task.id, 0)) = 1
                 /\ \A j \in DOMAIN task.subtasks :
                       (/\ SiblingsFor(mapper, task.id, task.subtasks[j].id) # {}
                        /\ ExpectedAction(task.subtasks[j].status).op # "none") =>
                          Cardinality(StatusCallsFor(task.id, task.subtasks[j].id)) = 1

\* the reconciler threw at the second task, which has no top-level
\* mapping and a status that asks for no action, after it had made a call
\* for the first task and passed over a subtask of it that has no mapping
C32_Witness ==
    /\ pc = "exited"
    /\ error.msg = NoBeadsEpicMsg
    /\ PositionOf(error.id) = 2
    /\ ordered[2].status = "pending"
    /\ StatusCallsFor(ordered[1].id, 0) # {}
    /\ \E j \in DOMAIN ordered[1].subtasks :
          /\ SiblingsFor(mapper, ordered[1].id, ordered[1].subtasks[j].id) = {}
          /\ ordered[1].subtasks[j].status = "done"
    /\ AllSettledOk

----------------------------------------------------------------------------
(* Claims about the order of the top-level creations *)

\* the source ids of the createEpic calls that succeeded before call k
CreatedBefore(k) ==
    {log[j].tm : j \in {i \in 1..(k - 1) :
                           log[i].op = "createEpic" /\ log[i].outcome = "ok"}}

\* C34: a createEpic call for a task is issued only after the createEpic
\* calls of all tasks it depends on, directly or transitively, have
\* succeeded, and the createEpic calls go through the tasks in the
\* resolver's order, ascending in (tier, id)
C34_CreationFollowsDependencies ==
    /\ \A k \in DOMAIN log :
          log[k].op = "createEpic" =>
              ReachableFrom(tasks, DepsOfIds(tasks, {log[k].tm}))
                  \subseteq CreatedBefore(k)
    /\ LET made == CallsOf("createEpic")
       IN made # <<>> =>
             /\ sortResult.err = NoErr
             /\ SortedByTierThenId(sortResult.out)
             /\ IsPrefix([k \in DOMAIN made |-> made[k].tm],
                         [k \in DOMAIN sortResult.out |-> sortResult.out[k].task.id])

\* the top-level stage has created the three tasks of a chain in which the
\* first task of the file depends on the second only and the second on the
\* third only: third, second, first
C34_Witness ==
    /\ pc \notin Prologue \cup {"createEpics", "exited"}
    /\ ~opts.dryRun
    /\ [k \in DOMAIN tasks |-> tasks[k].dependencies] = <<<<2>>, <<3>>, <<>>>>
    /\ [k \in DOMAIN CallsOf("createEpic") |-> CallsOf("createEpic")[k].tm]
          = <<3, 2, 1>>
    /\ AllSettledOk


----------------------------------------------------------------------------
(* Claims about the store during a run *)

\* the entries of a store: top-level, child and verification entries, each
\* with the source ids it is filed under and the target id it carries
EntriesOf(m) ==
    {<<"epic", m[i].tmId, 0, m[i].beadsId>> : i \in DOMAIN m}
    \cup UNION {{<<"child", m[i].tmId, m[i].subtasks[j].tmId,
                   m[i].subtasks[j].beadsId>> : j \in DOMAIN m[i].subtasks} :
                 i \in DOMAIN m}
    \cup {<<"test", m[i].tmId, 0, m[i].testIssueId>> :
             i \in {k \in DOMAIN m : "testIssueId" \in DOMAIN m[k]}}

RECURSIVE EntryCount(_, _)
EntryCount(m, k) ==
    IF k = 0 THEN 0
    ELSE EntryCount(m, k - 1) + 1 + Len(m[k].subtasks)
         + (IF "testIssueId" \in DOMAIN m[k] THEN 1 ELSE 0)

\* the entry a create call asks for, with the id the call returned
CreatedBy(c) ==
    CASE c.by = "createEpic" -> <<"epic", c.tm, 0, c.ret>>
      [] c.by = "createAllChildren" -> <<"child", c.tm, c.sub, c.ret>>
      [] c.by = "createTestChild" -> <<"test", c.tm, 0, c.ret>>

OkCreates == {k \in DOMAIN log : log[k].op \in CreateOps /\ log[k].outcome = "ok"}

\* C37: at every point of a fresh run between external calls the store holds
\* one entry for each create call that has succeeded so far, filed under the
\* source ids of the call and carrying the id the call returned, and no other
\* entry: none for a call that failed, is pending or was not issued
C37_EntriesTrackCreations ==
    FreshRun =>
        /\ EntriesOf(mapper) = {CreatedBy(log[k]) : k \in OkCreates}
        /\ EntryCount(mapper, Len(mapper)) = Cardinality(OkCreates)
        /\ \A a, b \in OkCreates : log[a].ret = log[b].ret => a = b

\* a fresh run has created two top-level items, a child and a verification
\* item and then had the creation of the second verification item rejected
C37_Witness ==
    /\ FreshRun
    /\ \E k \in OkCreates : log[k].by = "createEpic"
    /\ \E k \in OkCreates : log[k].by = "createAllChildren"
    /\ \E k \in OkCreates : log[k].by = "createTestChild"
    /\ \E k \in DOMAIN log : log[k].by = "createTestChild" /\ log[k].outcome = "fail"
    /\ EntryCount(mapper, Len(mapper)) = 4

\* C38 as stated: after any sequence of runs (fresh, forced or resumed) the
\* store holds at most one top-level entry per source task id and at most one
\* child entry per (parent id, subtask id), so that getStats().epicCount is
\* the number of distinct source task ids with a top-level mapping and
\* childCount the number of distinct mapped (parent, subtask) pairs
C38_OneEntryPerSourceId ==
    /\ \A i, j \in DOMAIN mapper : mapper[i].tmId = mapper[j].tmId => i = j
    /\ \A i \in DOMAIN mapper :
          \A a, b \in DOMAIN mapper[i].subtasks :
              mapper[i].subtasks[a].tmId = mapper[i].subtasks[b].tmId => a = b
    /\ getStats(mapper).epicCount
          = Cardinality({mapper[i].tmId : i \in DOMAIN mapper})
    /\ getStats(mapper).childCount
          = Cardinality(UNION {{<<mapper[i].tmId, mapper[i].subtasks[a].tmId>> :
                                   a \in DOMAIN mapper[i].subtasks} :
                               i \in DOMAIN mapper})
----------------------------------------------------------------------------
(* Claims about topologicalSort *)

\* C8: for an acyclic task list with unique ids whose dependency ids all
\* exist, topologicalSort returns every input node exactly once and gives
\* every node a tier strictly greater than the tier of each of its dependencies
C8_CoversAndTiersIncrease ==
    (/\ pc = "sortOutput"
     /\ UniqueIds(tasks) /\ AllDepsExist(tasks) /\ ~HasCycle(tasks))
    => /\ sortResult.err = NoErr
       /\ Len(sortResult.out) = Len(tasks)
       /\ \A k \in DOMAIN tasks :
             Cardinality({m \in DOMAIN sortResult.out :
                             sortResult.out[m].task = tasks[k]}) = 1
       /\ \A k \in DOMAIN tasks :
             \A d \in Range(tasks[k].dependencies) :
                 TierIn(sortResult.out, tasks[k].id) > TierIn(sortResult.out, d)

\* a diamond-like list was resolved: three nodes, one of them two tiers up
C8_Witness ==
    /\ pc = "sortOutput"
    /\ UniqueIds(tasks) /\ AllDepsExist(tasks) /\ ~HasCycle(tasks)
    /\ Len(tasks) = MaxNodes
    /\ sortResult.err = NoErr
    /\ \E k \in DOMAIN sortResult.out :
          /\ sortResult.out[k].tier = 2
          /\ Len(sortResult.out[k].task.dependencies) = 2

\* C9 as stated: for every input on which topologicalSort succeeds the output
\* is sorted by tier then id and is the same sequence of (id, tier) pairs for
\* every permutation of the input list
C9_AnyInputOrderIndependent ==
    (pc = "sortOutput" /\ sortResult.err = NoErr)
    => /\ SortedByTierThenId(sortResult.out)
       /\ \A p \in ListPermutations(tasks) :
             LET r == topologicalSort(p)
             IN r.err = NoErr /\ PairsOf(r) = PairsOf(sortResult)

\* C9 amended: the same for every input with unique ids on which
\* topologicalSort succeeds
C9_UniqueIdsOrderIndependent ==
    (pc = "sortOutput" /\ sortResult.err = NoErr /\ UniqueIds(tasks))
    => /\ SortedByTierThenId(sortResult.out)
       /\ \A p \in ListPermutations(tasks) :
             LET r == topologicalSort(p)
             IN r.err = NoErr /\ PairsOf(r) = PairsOf(sortResult)

\* a list given in descending id order, two of its nodes in the same tier,
\* was resolved
C9_Witness ==
    /\ pc = "sortOutput" /\ sortResult.err = NoErr /\ UniqueIds(tasks)
    /\ Len(tasks) = MaxNodes
    /\ \A a, b \in DOMAIN tasks : a < b => tasks[a].id > tasks[b].id
    /\ \E a, b \in DOMAIN sortResult.out :
          a # b /\ sortResult.out[a].tier = sortResult.out[b].tier
    /\ \E a \in DOMAIN sortResult.out : sortResult.out[a].tier > 0

\* C10 as stated: a task list that contains a self-referencing node always
\* makes topologicalSort fail with a cycle error, whatever else it holds
C10_SelfRefAlwaysCycleError ==
    (pc = "sortOutput" /\ HasSelfRef(tasks)) => sortResult.err.msg = CycleMsg

\* C10 amended: a task list with unique ids whose dependency ids all exist
\* and that contains a self-referencing node always makes topologicalSort
\* fail with a cycle error, never with a missing-reference error
C10_SelfRefCycleErrorWhenResolvable ==
    (/\ pc = "sortOutput" /\ HasSelfRef(tasks)
     /\ UniqueIds(tasks) /\ AllDepsExist(tasks))
    => sortResult.err.msg = CycleMsg

\* a self-referencing node that comes after another dependency of a later
\* node was reported as a cycle
C10_Witness ==
    /\ pc = "sortOutput" /\ UniqueIds(tasks) /\ AllDepsExist(tasks)
    /\ Len(tasks) = MaxNodes
    /\ \E k \in DOMAIN tasks :
          /\ k > 1
          /\ Len(tasks[k].dependencies) = 2
          /\ tasks[k].dependencies[2] = tasks[k].id
          /\ tasks[k].dependencies[1] # tasks[k].id
    /\ ~HasSelfRef(SubSeq(tasks, 1, 1))
    /\ sortResult.err.msg = CycleMsg

\* the dependency ids of a task list that have no node
MissingIds(ts) == DepsOfIds(ts, IdsOf(ts)) \ IdsOf(ts)

\* C11 as stated: a task list in which some dependency id has no
\* corresponding node always makes topologicalSort fail with a
\* missing-reference error that names an id without a node
C11_MissingRefAlwaysNamed ==
    (pc = "sortOutput" /\ MissingIds(tasks) # {})
    => /\ sortResult.err.msg = MissingMsg
       /\ sortResult.err.id \in MissingIds(tasks)

\* C11 amended: the same for a task list with unique ids and without a
\* cycle or self reference; the id named is a dependency id without a node
C11_MissingRefNamedWhenAcyclic ==
    (/\ pc = "sortOutput" /\ MissingIds(tasks) # {}
     /\ UniqueIds(tasks) /\ ~HasCycle(tasks))
    => /\ sortResult.err.msg = MissingMsg
       /\ sortResult.err.id \in MissingIds(tasks)

\* a list of MaxNodes nodes whose only dangling dependency is the last
\* entry of the last node's dependency list was refused with that id
C11_Witness ==
    /\ pc = "sortOutput" /\ UniqueIds(tasks) /\ ~HasCycle(tasks)
    /\ Len(tasks) = MaxNodes
    /\ MissingIds(tasks) = {MaxNodes + 1}
    /\ Len(tasks[MaxNodes].dependencies) = MaxDeps
    /\ tasks[MaxNodes].dependencies[MaxDeps] = MaxNodes + 1
    /\ \E k \in DOMAIN tasks : tasks[k].dependencies # <<>> /\ k < MaxNodes
    /\ sortResult.err = Err(MissingMsg, MaxNodes + 1)

\* the ids a resolver error message holds: the message interpolates one id
NamedIds(e) == {e.id}

\* S holds a closed dependency path: every node of S depends on a node of S
ClosedPath(ts, S) ==
    /\ S # {}
    /\ \A n \in S : DepsOfIds(ts, {n}) \cap S # {}

\* C12: when topologicalSort raises a cycle error, its message names every
\* node of one concrete cycle (for 1 -> 2 -> 1 both ids 1 and 2).
C12_CycleErrorNamesCycle ==
    (pc = "sortOutput" /\ sortResult.err.msg = CycleMsg)
    => \E S \in SUBSET NamedIds(sortResult.err) : ClosedPath(tasks, S)

----------------------------------------------------------------------------
(* Claims about the tier numbers of topologicalSort *)

MaxOf(S) == CHOOSE x \in S : \A y \in S : y <= x

DepsOf(ts, n) == Range(ts[CHOOSE k \in DOMAIN ts : ts[k].id = n].dependencies)

\* the number of edges of the longest dependency chain below node n
RECURSIVE ChainBelow(_, _)
ChainBelow(ts, n) ==
    IF DepsOf(ts, n) = {} THEN 0
    ELSE 1 + MaxOf({ChainBelow(ts, d) : d \in DepsOf(ts, n)})

SortNode(n, deps) == [id |-> n, dependencies |-> deps]

ChainExample == <<SortNode(1, <<>>), SortNode(2, <<1>>), SortNode(3, <<2>>)>>

DiamondExample ==
    <<SortNode(1, <<>>), SortNode(2, <<1>>), SortNode(3, <<1>>),
      SortNode(4, <<2, 3>>)>>

ChainExampleTiers == PairsOf(topologicalSort(ChainExample))

DiamondExampleTiers == PairsOf(topologicalSort(DiamondExample))

\* C35: on a list with unique ids that topologicalSort resolves, the tier of a
\* node is 0 when the node has no dependencies and otherwise one plus the
\* greatest tier among its dependencies, which is the length of the longest
\* dependency chain below the node; the chain 1,2,3 gets tiers 0,1,2 and the
\* diamond {1:[],2:[1],3:[1],4:[2,3]} gets 0,1,1,2
C35_TierIsLongestChain ==
    /\ ChainExampleTiers = <<<<1, 0>>, <<2, 1>>, <<3, 2>>>>
    /\ DiamondExampleTiers = <<<<1, 0>>, <<2, 1>>, <<3, 1>>, <<4, 2>>>>
    /\ (pc = "sortOutput" /\ UniqueIds(tasks) /\ sortResult.err = NoErr)
       => \A k \in DOMAIN tasks :
             LET n == tasks[k].id
                 tier == TierIn(sortResult.out, n)
             IN /\ tier = IF tasks[k].dependencies = <<>> THEN 0
                          ELSE 1 + MaxOf({TierIn(sortResult.out, d) :
                                             d \in Range(tasks[k].dependencies)})
                /\ tier = ChainBelow(tasks, n)

\* a node with two dependencies of different tiers, the lower one listed last,
\* was given one more than the higher tier
C35_Witness ==
    /\ pc = "sortOutput" /\ UniqueIds(tasks) /\ sortResult.err = NoErr
    /\ \E k \in DOMAIN tasks :
          LET deps == tasks[k].dependencies
          IN /\ Len(deps) = 2
             /\ TierIn(sortResult.out, deps[1]) = 1
             /\ TierIn(sortResult.out, deps[2]) = 0
             /\ TierIn(sortResult.out, tasks[k].id) = 2

----------------------------------------------------------------------------
(* Claims about the two cycle detectors *)

\* C36: for a task list with unique ids whose dependency ids all exist,
\* topologicalSort throws its cycle error exactly when the dependency graph
\* has a cycle (a self-loop included) and returns otherwise, and
\* validateCircularDependencies returns valid = false with at least one
\* 'Circular dependency' error in exactly those cases and valid = true with
\* no error in the others
C36_CycleDetectorsAgree ==
    (pc = "validated" /\ UniqueIds(tasks) /\ AllDepsExist(tasks))
    => /\ HasCycle(tasks) <=> sortResult.err.msg = CycleMsg
       /\ ~HasCycle(tasks) <=> sortResult.err = NoErr
       /\ HasCycle(tasks)
          => /\ validation.valid = FALSE
             /\ Len(validation.errors) >= 1
             /\ \A k \in DOMAIN validation.errors :
                   validation.errors[k].msg = CircularMsg
       /\ ~HasCycle(tasks)
          => /\ validation.valid = TRUE
             /\ validation.errors = <<>>

\* both detectors reported a cycle through three nodes, none of which names
\* itself
C36_Witness ==
    /\ pc = "validated" /\ UniqueIds(tasks) /\ AllDepsExist(tasks)
    /\ Len(tasks) = MaxNodes
    /\ ~HasSelfRef(tasks)
    /\ \A k \in DOMAIN tasks : Len(tasks[k].dependencies) = 1
    /\ HasCycle(tasks)
    /\ sortResult.err.msg = CycleMsg
    /\ validation.valid = FALSE
    /\ \E k \in DOMAIN validation.errors : Len(validation.errors[k].path) = 4

\* both detectors accepted a list in which one node is reached along two paths
C36_WitnessAcyclic ==
    /\ pc = "validated" /\ UniqueIds(tasks) /\ AllDepsExist(tasks)
    /\ \E k \in DOMAIN tasks : Len(tasks[k].dependencies) = 2
    /\ \E k \in DOMAIN sortResult.out : sortResult.out[k].tier = 2
    /\ validation.valid = TRUE

----------------------------------------------------------------------------
(* Claims about the completion of a run *)

\* the document holds one top-level entry per task, one child entry per
\* subtask and a verification entry exactly for the tasks whose test strategy
\* is not empty
PersistedComplete(document, ts) ==
    LET m == loadedTasks(document)
        EntryOf(t) == m[CHOOSE i \in DOMAIN m : m[i].tmId = t]
    IN /\ document.present
       /\ Len(m) = Len(ts)
       /\ \A k \in DOMAIN ts :
             /\ Cardinality({i \in DOMAIN m : m[i].tmId = ts[k].id}) = 1
             /\ Len(EntryOf(ts[k].id).subtasks) = Len(ts[k].subtasks)
             /\ \A j \in DOMAIN ts[k].subtasks :
                   Cardinality({a \in DOMAIN EntryOf(ts[k].id).subtasks :
                                   EntryOf(ts[k].id).subtasks[a].tmId
                                       = ts[k].subtasks[j].id}) = 1
             /\ "testIssueId" \in DOMAIN EntryOf(ts[k].id)
                   <=> Truthy(ts[k].testStrategy)

\* the run has saved its store and returned
RunPersisted ==
    /\ pc = "done"
    /\ log # <<>> /\ log[Len(log)] = SaveEntry
    /\ disk = savedDocument(mapper)
    /\ PersistedComplete(disk, tasks)

\* C39: a fresh run that is not a dry run, over a task list with unique task
\* ids, unique subtask ids within each parent, acyclic and resolvable task
\* dependencies and subtask dependencies on siblings only, in which every
\* external call succeeds, eventually saves the store, and the saved store
\* holds one top-level entry per task, one child entry per subtask and one
\* verification entry per task with a non-empty test strategy
C39_FreshRunPersists ==
    (pc = "checkInit" /\ ~opts.dryRun /\ ~(opts.resume /\ diskBefore.present))
        ~> RunPersisted

\* a forced run over the file of an earlier run has saved a store with two
\* top-level entries, two child entries under one of them and a verification
\* entry for one task, the other task having an empty test strategy
C39_Witness ==
    /\ RunPersisted
    /\ opts.force /\ diskBefore.present
    /\ Len(tasks) = 2
    /\ \E k \in DOMAIN tasks : Len(tasks[k].subtasks) = 2
    /\ \E k \in DOMAIN tasks : tasks[k].testStrategy = <<"">>
    /\ \E k \in DOMAIN tasks : Truthy(tasks[k].testStrategy)
    /\ \E k \in DOMAIN tasks : tasks[k].dependencies # <<>>

====
